---- MODULE Spec2Model ----
(***************************************************************************)
(* State-machine model of the VM Helper browser extension:                 *)
(*   - LetterTemplateGenerator (src/letter-templates.js)                   *)
(*   - AutoRatingManager       (src/content.js, auto-rating.js section)    *)
(*   - VMHelper.initialize     (src/content.js)                            *)
(*   - the tab-close watcher   (src/content.js, top of the file)           *)
(*   - BackgroundManager and the link handler (src/background.js,          *)
(*     src/popup-to-tab.js)                                                *)
(*   - UIManager               (src/unnamed/part_000)                      *)
(*                                                                         *)
(* Text is modelled as a sequence of tokens.  Every literal fragment of a  *)
(* template is one token, the line break "\n" is a token of its own, and a *)
(* name is a (possibly empty) sequence of tokens.  The Korean literals of  *)
(* the source cannot be written in a TLA+ string, so each is given an      *)
(* ASCII token and the original text is quoted in the comment above it.    *)
(***************************************************************************)
EXTENDS Integers, Sequences, FiniteSets, TLC

VARIABLES
    \* ---- LetterTemplateGenerator -------------------------------------
    templateConfigs,   \* this.templateConfigs
    helperStatements,  \* this.helperStatements
    letterType,        \* argument of the observed call
    authorType,        \* argument of the observed call
    letterData,        \* argument of the observed call (the caller's object)
    outcome,           \* what the latest observed call did: returned / threw
    ncalls,            \* number of observed calls made so far
    nother,            \* number of calls made with other arguments in between
    \* ---- AutoRatingManager -------------------------------------------
    pc,                \* position of handleAutoRating / clickRatingWithRetry
    attempt,           \* loop variable of clickRatingWithRetry
    elementPresent,    \* the page: the rating element is in the document
    elementStyle,      \* the page: the element's computed style
    nchanges,          \* the page: how often it has changed the element so far
    log,               \* what the run did so far: delays set, attempts, clicks
    success,           \* what the run reported: "none" until it returns
    nmanual,           \* number of triggerManualRating() calls made so far
    \* ---- VMHelper ----------------------------------------------------
    search,            \* window.location.search, as a list of key/value pairs
    initPc,            \* position of VMHelper.initialize
    userErrors,        \* number of ErrorUtils.showUserError calls made so far
    windowAlert,       \* what window.alert is bound to
    panelShown,        \* how showHelper() of handleAutoMode has settled
    \* ---- tab-close watcher -------------------------------------------
    href,              \* location.href
    lastUrl,           \* let lastUrl
    bodyText,          \* document.body.innerText
    observerConnected, \* the MutationObserver is observing document.body
    formListener,      \* the submit listener of form[name="letter_view"] is on
    submitTimers,      \* pending setTimeout(..., 100) of the submit listener
    unloaded,          \* beforeunload has been dispatched: the page is going
    lastEvent,         \* the event of the page delivered last
    nevents,           \* number of events of the page delivered so far
    closeRequests,     \* number of closeTab messages sent so far
    \* ---- BackgroundManager and the link handler -----------------------
    inbox,             \* messages sent to the service worker, not yet handled
    openTabs,          \* ids of the tabs that are open
    createdUrls,       \* urls of the tabs chrome.tabs.create has opened
    handled,           \* the messages handled so far, each with its response
    nmessages,         \* number of messages sent so far
    clickPc,           \* position of processLink for the click on a link
    clickResponse,     \* what the callback of processLink gets
    fallbacks,         \* number of fallbackOpenTab calls made so far
    \* ---- UIManager: the panel and manual generation -------------------
    container,         \* this.container: 0 for null, else the id of the element
    attached,          \* ids of the containers that are in document.body
    uiVisible,         \* this.isVisible
    ncontainers,       \* number of containers createContainer() has made
    pendingLogo,       \* createUI() calls of a click waiting in loadLogo()
    pendingShow,       \* show() animations that have not completed
    pendingHide,       \* hide() calls of a click waiting for their animation
    pendingGenHide,    \* hide() calls awaited by handleTemplateGeneration
    letterTypeChecked, \* value of input[name="letterType"]:checked, or "none"
    authorTypeChecked, \* value of input[name="authorType"]:checked, or "none"
    koreanCell,        \* the page: the cell of the child's Korean name
    englishCell,       \* the page: the cell of the child's English name
    sponsorCell,       \* the page: the cell of the sponsor's name
    textareaPresent,   \* the page: #letter_1thcont is in the document
    textareaValue,     \* the page: its value
    textareaFocused,   \* the page: it has the focus
    nwrites,           \* number of assignments to textarea.value so far
    toasts,            \* number of success toasts shown so far
    lastAlert,         \* argument of the latest alert() call of the extension
    dialogs,           \* number of dialogs the browser has displayed
    unhandled,         \* number of promise rejections nothing has caught
    nclicks,           \* clicks on the floating and close buttons so far
    ngenerations,      \* number of handleTemplateGeneration() calls so far
    \* ---- VMHelper.initialize, called several times ---------------------
    callPc,            \* position of each initialize() call
    isInitialized,     \* this.isInitialized
    helperContainer,   \* document.getElementById('wv-helper-container') != null
    callSearch,        \* window.location.search of the page
    runsStarted,       \* number of handleAutoRating() calls made so far
    managers           \* number of AutoRatingManager objects constructed

letterVars == <<templateConfigs, helperStatements, letterType, authorType,
                letterData, outcome, ncalls, nother>>
ratingVars == <<pc, attempt, elementPresent, elementStyle, nchanges, log, success,
               nmanual>>
helperVars == <<search, initPc, userErrors, windowAlert, panelShown>>
watcherVars == <<href, lastUrl, bodyText, observerConnected, formListener,
                 submitTimers, unloaded, lastEvent, nevents, closeRequests>>
backgroundVars == <<inbox, openTabs, createdUrls, handled, nmessages, clickPc,
                    clickResponse, fallbacks>>
panelVars == <<container, attached, uiVisible, ncontainers, pendingLogo, pendingShow,
               pendingHide, pendingGenHide, letterTypeChecked, authorTypeChecked,
               koreanCell, englishCell, sponsorCell, textareaPresent,
               textareaValue, textareaFocused, nwrites, toasts, lastAlert, dialogs,
               unhandled, nclicks, ngenerations>>
callVars == <<callPc, isInitialized, helperContainer, callSearch, runsStarted,
              managers>>
vars == <<letterVars, ratingVars, helperVars, watcherVars, backgroundVars,
          panelVars, callVars>>

(***************************************************************************)
(* Bounds of the model.                                                    *)
(***************************************************************************)
MaxCalls == 2        \* observed calls of generatePersonalizedLetter per run
MaxOtherCalls == 1   \* calls with other arguments interleaved with them
MaxPageChanges == 3  \* times the page adds / removes / restyles the element
MaxManualRuns == 1   \* calls of triggerManualRating()
MaxEvents == 5       \* events of the page the watcher sees
MaxMessages == 3     \* messages sent to the service worker
MaxClicks == 3       \* clicks on the floating button and the close button
MaxGenerations == 1  \* calls of handleTemplateGeneration()
MaxInitCalls == 2    \* calls of VMHelper.initialize() on one page

(***************************************************************************)
(* VM_CONFIG (config.js section of src/letter-templates.js)                *)
(***************************************************************************)
HANDPRINT == "HANDPRINT"
PORTRAIT == "PORTRAIT"
OTHER_TYPE == "OTHER"
LETTER_TYPES == {HANDPRINT, PORTRAIT, OTHER_TYPE}

CHILD == "CHILD"
ANONYMOUS_HELPER == "ANONYMOUS_HELPER"
NAMED_HELPER == "NAMED_HELPER"
AUTHOR_TYPES == {CHILD, ANONYMOUS_HELPER, NAMED_HELPER}

\* VM_CONFIG.TIMING
AUTO_RATING_DELAY == 1000
AUTO_RATING_RETRY_DELAY == 2000

(***************************************************************************)
(* JavaScript values of the fields of letterData.                          *)
(***************************************************************************)
Undefined == [t |-> "undefined", s |-> <<>>]
Null == [t |-> "null", s |-> <<>>]
Str(toks) == [t |-> "string", s |-> toks]

\* !v for the values above: undefined, null and '' are falsy.
Falsy(v) == v.t # "string" \/ v.s = <<>>

\* ${v} in a template literal.
Interpolate(v) ==
    IF v.t = "string" THEN v.s ELSE <<v.t>>

NL == "\n"

\* Array.prototype.join(sep) on an array of token sequences.
RECURSIVE Join(_, _)
Join(parts, sep) ==
    IF parts = <<>> THEN <<>>
    ELSE IF Len(parts) = 1 THEN parts[1]
    ELSE parts[1] \o sep \o Join(Tail(parts), sep)

(***************************************************************************)
(* Literals of the templates.                                              *)
(***************************************************************************)
\* '손도장'
ART_HANDPRINT == "handprint"
\* '자화상'
ART_PORTRAIT == "self-portrait"
\* '*이 편지를 작성하는데 (자원봉사자/엄마/아빠/할머니/고모 등)인 한글독음(영문병기)가 도와주셨어요.'
NAMED_STATEMENT == <<"*NAMED-HELPER helped me write this letter.">>
\* '*이 편지는 현지사업장 자원봉사자 혹은 가족의 도움으로 작성되었어요.'
ANONYMOUS_STATEMENT == <<"*This letter was written with the help of a volunteer or family.">>
\* '사랑하는 ' ... ' 후원자님께,'
GREETING_PRE == "Dear "
GREETING_POST == " sponsor,"
\* '후원자님의 후원아동, ' ... '(' ... ') 올림'
SIGNATURE_PRE == "Your sponsored child, "
OPEN_PAREN == "("
SIGNATURE_POST == ") sincerely"
\* '안녕하세요!'
HELLO == <<"Hello!">>
\* '제 이름은 ' ... '이에요. 우리 서로 알아가요!'
INTRO_PRE == "My name is "
INTRO_POST == ") is my name. Let us get to know each other!"
\* '- 저의 ' ... '을 그려 보았어요.'
ART_PRE == "- I drew my "
ART_POST == "."
\* '- 제게 특별한 사람 :'
Q_SPECIAL_PERSON == <<"- A person special to me :">>
\* '- 이 사람이 제게 특별한 이유 :'
Q_SPECIAL_REASON == <<"- Why this person is special to me :">>
\* '- 저를 행복하게 해주는 것 :'
Q_HAPPY == <<"- What makes me happy :">>
\* '- 우리 마을에서 가장 좋아하는 것과 그 이유 :'
Q_VILLAGE == <<"- What I like most in our village and why :">>
\* '- 후원자님께 궁금한 것 :'
Q_SPONSOR == <<"- What I want to ask my sponsor :">>
\* '저를 후원해 주셔서 감사해요.'
THANKS == <<"Thank you for sponsoring me.">>
\* '후원자님의 소식을 빨리 듣고 싶어요!'
HEAR_SOON == <<"I hope to hear from you soon!">>
BLANK == <<>>

(***************************************************************************)
(* LetterTemplateGenerator                                                 *)
(***************************************************************************)
\* Mutant: the two art-element nouns are stored under each other's type.
SwappedArtTemplateConfigs ==
    [lt \in LETTER_TYPES |->
        CASE lt = HANDPRINT -> [artElement |-> ART_PORTRAIT, includeVillageQuestion |-> FALSE]
          [] lt = PORTRAIT -> [artElement |-> ART_HANDPRINT, includeVillageQuestion |-> TRUE]
          [] OTHER -> [isSimpleTemplate |-> TRUE]]

\* constructor: this.templateConfigs
InitialTemplateConfigs ==
    [lt \in LETTER_TYPES |->
        CASE lt = HANDPRINT -> [artElement |-> ART_HANDPRINT, includeVillageQuestion |-> FALSE]
          [] lt = PORTRAIT -> [artElement |-> ART_PORTRAIT, includeVillageQuestion |-> TRUE]
          [] OTHER -> [isSimpleTemplate |-> TRUE]]

\* Mutant: the two helper statements are stored under each other's key.
SwappedHelperStatements ==
    [at \in AUTHOR_TYPES |->
        CASE at = NAMED_HELPER -> ANONYMOUS_STATEMENT
          [] at = ANONYMOUS_HELPER -> NAMED_STATEMENT
          [] OTHER -> <<>>]

\* constructor: this.helperStatements
InitialHelperStatements ==
    [at \in AUTHOR_TYPES |->
        CASE at = NAMED_HELPER -> NAMED_STATEMENT
          [] at = ANONYMOUS_HELPER -> ANONYMOUS_STATEMENT
          [] OTHER -> <<>>]

\* Mutant: the last required field is left out of the list.
requiredFieldsWithoutEnglishName == <<"sponsorName", "childKoreanName">>

\* const requiredFields = [...] of validateInputs
requiredFields == <<"sponsorName", "childKoreanName", "childEnglishName">>

\* Mutant: only !letterData is tested, the typeof test is dropped.
NotAnObjectFalsyOnly(d) == d.shape \in {"undefined", "null"}

\* !letterData || typeof letterData !== 'object'
NotAnObject(d) == d.shape # "object"

\* Mutant: find() instead of filter(): only the first missing field is kept.
FirstMissingField(d) ==
    LET IsMissing(field) == Falsy(d[field])
        all == SelectSeq(requiredFields, IsMissing)
    IN IF all = <<>> THEN <<>> ELSE <<all[1]>>

\* requiredFields.filter(field => !letterData[field])
MissingFields(d) ==
    LET IsMissing(field) == Falsy(d[field])
    IN SelectSeq(requiredFields, IsMissing)

\* `Missing required fields: ${missing.join(', ')}`
MissingError(missing) ==
    <<"Missing required fields: ">> \o Join([i \in 1..Len(missing) |-> <<missing[i]>>], <<", ">>)

\* The required-fields branch of validateInputs: only for types other than OTHER.
FieldErrors(lt, d) ==
    IF lt # OTHER_TYPE /\ MissingFields(d) # <<>>
    THEN <<MissingError(MissingFields(d))>>
    ELSE <<>>

validateInputs(lt, at, d) ==
    LET e1 == IF lt \notin LETTER_TYPES
              THEN <<(<<"Invalid letter type: ", lt>>)>> ELSE <<>>
        e2 == IF at \notin AUTHOR_TYPES
              THEN <<(<<"Invalid author type: ", at>>)>> ELSE <<>>
        e3 == IF NotAnObject(d)
              THEN <<(<<"Letter data is required and must be an object">>)>>
              ELSE FieldErrors(lt, d)
        errors == e1 \o e2 \o e3
    IN [isValid |-> errors = <<>>, errors |-> errors]

\* `사랑하는 ${data.sponsorName} 후원자님께,`
GreetingLine(d) == <<GREETING_PRE>> \o Interpolate(d.sponsorName) \o <<GREETING_POST>>

\* `후원자님의 후원아동, ${data.childKoreanName}(${data.childEnglishName}) 올림`
SignatureLine(d) ==
    <<SIGNATURE_PRE>> \o Interpolate(d.childKoreanName) \o <<OPEN_PAREN>>
        \o Interpolate(d.childEnglishName) \o <<SIGNATURE_POST>>

\* Mutant: the statement is pushed whether or not it is empty.
HelperBlockAlways(helperStatement) == <<helperStatement, BLANK>>

\* if (helperStatement) { parts.push(helperStatement, ''); }
HelperBlock(helperStatement) ==
    IF helperStatement # <<>> THEN <<helperStatement, BLANK>> ELSE <<>>

generateSimpleTemplate(at, d) ==
    LET helperStatement == helperStatements[at]
        parts == <<GreetingLine(d), BLANK>>
                    \o HelperBlock(helperStatement)
                    \o <<SignatureLine(d)>>
    IN Join(parts, <<NL>>)

\* Mutant: the village question is pushed for every full template.
VillageBlockAlways(config) == <<Q_VILLAGE, BLANK>>

\* if (config.includeVillageQuestion) { parts.push('- 우리 마을에서 ...', ''); }
VillageBlock(config) ==
    IF config.includeVillageQuestion THEN <<Q_VILLAGE, BLANK>> ELSE <<>>

generateFullTemplate(lt, at, d) ==
    LET config == templateConfigs[lt]
        helperStatement == helperStatements[at]
        parts == << GreetingLine(d),
                    BLANK,
                    HELLO,
                    BLANK,
                    <<INTRO_PRE>> \o Interpolate(d.childKoreanName) \o <<OPEN_PAREN>>
                        \o Interpolate(d.childEnglishName) \o <<INTRO_POST>>,
                    BLANK,
                    <<ART_PRE, config.artElement, ART_POST>>,
                    BLANK,
                    Q_SPECIAL_PERSON,
                    BLANK,
                    Q_SPECIAL_REASON,
                    BLANK,
                    BLANK,
                    Q_HAPPY,
                    BLANK >>
                    \o VillageBlock(config)
                    \o <<Q_SPONSOR, BLANK, THANKS, HEAR_SOON, BLANK>>
                    \o HelperBlock(helperStatement)
                    \o <<SignatureLine(d)>>
    IN Join(parts, <<NL>>)

\* The result of a call: the string returned, or the message of the Error thrown.
generatePersonalizedLetter(lt, at, d) ==
    LET validation == validateInputs(lt, at, d)
    IN IF ~validation.isValid
       THEN [kind |-> "thrown",
             text |-> <<"Template generation failed: ">> \o Join(validation.errors, <<", ">>)]
       ELSE IF lt = OTHER_TYPE
       THEN [kind |-> "returned", text |-> generateSimpleTemplate(at, d)]
       ELSE [kind |-> "returned", text |-> generateFullTemplate(lt, at, d)]

(***************************************************************************)
(* The arguments a caller can pass.                                        *)
(***************************************************************************)
\* A type string that is none of the configured ones.
BOGUS == "BOGUS"
LetterTypeArgs == LETTER_TYPES \cup {BOGUS}
AuthorTypeArgs == AUTHOR_TYPES \cup {BOGUS}

\* '홍길동', '김민수', 'Minsu Kim': names as the page holds them, and ' ', a
\* string of white space only.
NameValues ==
    {Str(<<"Hong Gildong">>), Str(<<"Kim Minsu">>), Str(<<"Minsu", " ", "Kim">>), Str(<<" ">>)}
FieldValues == {Undefined, Null, Str(<<>>)} \cup NameValues

NoObject(shape) ==
    [shape |-> shape, sponsorName |-> Undefined,
     childKoreanName |-> Undefined, childEnglishName |-> Undefined]

LetterDataArgs ==
    {NoObject("undefined"), NoObject("null"), NoObject("string")}
    \cup [shape : {"object"}, sponsorName : FieldValues,
          childKoreanName : FieldValues, childEnglishName : FieldValues]

NoOutcome == [kind |-> "none", text |-> <<>>]

InitLetter ==
    /\ templateConfigs = InitialTemplateConfigs
    /\ helperStatements = InitialHelperStatements
    /\ letterType \in LetterTypeArgs
    /\ authorType \in AuthorTypeArgs
    /\ letterData \in LetterDataArgs
    /\ outcome = NoOutcome
    /\ ncalls = 0
    /\ nother = 0

\* Mutant: "Prepare data with fallbacks" done in place, on the caller's object.
GenerateWithFallbacksInPlace ==
    /\ ncalls < MaxCalls
    /\ outcome' = generatePersonalizedLetter(letterType, authorType, letterData)
    /\ letterData' = IF letterData.shape = "object" /\ Falsy(letterData.sponsorName)
                     THEN [letterData EXCEPT !.sponsorName = Str(<<"Hong Gildong">>)]
                     ELSE letterData
    /\ ncalls' = ncalls + 1
    /\ UNCHANGED <<templateConfigs, helperStatements, letterType, authorType, nother>>
    /\ UNCHANGED <<ratingVars, helperVars, watcherVars, backgroundVars, panelVars, callVars>>

\* A call generatePersonalizedLetter(letterType, authorType, letterData).  The
\* method assigns to no field of the generator and to no property of its
\* arguments ("const data = letterData" only aliases the argument).
Generate ==
    /\ ncalls < MaxCalls
    /\ outcome' = generatePersonalizedLetter(letterType, authorType, letterData)
    /\ ncalls' = ncalls + 1
    /\ UNCHANGED <<templateConfigs, helperStatements, letterType, authorType,
                   letterData, nother>>
    /\ UNCHANGED <<ratingVars, helperVars, watcherVars, backgroundVars, panelVars, callVars>>

\* The arguments of the calls other callers make in between.
OtherCallArgs ==
    { <<PORTRAIT, NAMED_HELPER,
        [shape |-> "object", sponsorName |-> Str(<<"Hong Gildong">>),
         childKoreanName |-> Str(<<"Kim Minsu">>),
         childEnglishName |-> Str(<<"Minsu", " ", "Kim">>)]>>,
      <<OTHER_TYPE, ANONYMOUS_HELPER,
        [shape |-> "object", sponsorName |-> Str(<<>>),
         childKoreanName |-> Undefined, childEnglishName |-> Null]>>,
      <<BOGUS, BOGUS, NoObject("null")>> }

\* A call of the same generator with other arguments; its result goes to
\* that other caller.
GenerateOther ==
    /\ nother < MaxOtherCalls
    /\ \E args \in OtherCallArgs :
          generatePersonalizedLetter(args[1], args[2], args[3]).kind
              \in {"returned", "thrown"}
    /\ nother' = nother + 1
    /\ UNCHANGED <<templateConfigs, helperStatements, letterType, authorType,
                   letterData, outcome, ncalls>>
    /\ UNCHANGED <<ratingVars, helperVars, watcherVars, backgroundVars, panelVars, callVars>>

NextLetter == Generate \/ GenerateOther

(***************************************************************************)
(* The host page: the rating element and the query string.                 *)
(***************************************************************************)
\* The properties of the computed style that DOMUtils.isVisible reads.
Styles ==
    [display : {"block", "none"}, visibility : {"visible", "hidden"},
     opacity : {"1", "0"}]

ShownStyle == [display |-> "block", visibility |-> "visible", opacity |-> "1"]

\* window.location.search as URLSearchParams parses it.
Param(k, v) == [key |-> k, value |-> v]

SearchStrings ==
    { <<>>,
      <<Param("auto_helper", "1")>>,
      <<Param("auto_helper", "0")>>,
      <<Param("auto_helper", "")>>,
      <<Param("page", "2"), Param("auto_helper", "true")>>,
      <<Param("AUTO_HELPER", "1")>>,
      <<Param("helper", "auto_helper")>> }

\* URLSearchParams.has(name)
has(params, name) == \E i \in 1..Len(params) : params[i].key = name

(***************************************************************************)
(* AutoRatingManager                                                       *)
(***************************************************************************)
\* constructor
maxRetries == 2
retryDelay == AUTO_RATING_RETRY_DELAY
initialDelay == AUTO_RATING_DELAY
\* await this.delay(500) of clickRating
settleDelay == 500

\* One entry of the run's record: a timer set with this.delay(n), a call of
\* clickRating(n), or what that call did (its console.log line or its click).
Event(e, n) == [e |-> e, n |-> n]

InitRating ==
    /\ pc = "idle"
    /\ attempt = 0
    /\ elementPresent \in BOOLEAN
    /\ elementStyle \in (IF elementPresent THEN Styles ELSE {ShownStyle})
    /\ nchanges = 0
    /\ log = <<>>
    /\ success = "none"
    /\ nmanual = 0

\* Mutant: the opacity of the element is not looked at.
isVisibleIgnoringOpacity ==
    /\ elementPresent
    /\ elementStyle.display # "none"
    /\ elementStyle.visibility # "hidden"

\* DOMUtils.isVisible(ratingElement) for the element found.
isVisible ==
    /\ elementPresent
    /\ elementStyle.display # "none"
    /\ elementStyle.visibility # "hidden"
    /\ elementStyle.opacity # "0"

\* Mutant: the click is validated by the element being visible.
validateRatingClickByVisibility == isVisible

\* validateRatingClick(): the element can be located again.
validateRatingClick == elementPresent

\* Mutant: the flag counts only with the value 1.
shouldPerformAutoRatingWhenOne ==
    \E i \in 1..Len(search) : search[i] = Param("auto_helper", "1")

\* shouldPerformAutoRating(): urlParams.has('auto_helper')
shouldPerformAutoRating == has(search, "auto_helper")

\* Mutant: the retry delay is taken after the last attempt as well.
AfterFailedAttemptAlwaysDelays(entries) ==
    /\ log' = log \o entries \o <<Event("delay", retryDelay)>>
    /\ IF attempt < maxRetries
       THEN pc' = "retryDelay" /\ success' = success
       ELSE pc' = "done" /\ success' = "false"

\* Mutant: the loop runs while attempt <= maxRetries + 1.
AfterFailedAttemptOneMore(entries) ==
    IF attempt < maxRetries + 1
    THEN /\ log' = log \o entries \o <<Event("delay", retryDelay)>>
         /\ pc' = "retryDelay"
         /\ success' = success
    ELSE /\ log' = log \o entries
         /\ pc' = "done"
         /\ success' = "false"

\* clickRatingWithRetry after clickRating(attempt) returned false: wait and
\* retry while attempt < maxRetries, else fall out of the loop, return false.
AfterFailedAttempt(entries) ==
    IF attempt < maxRetries
    THEN /\ log' = log \o entries \o <<Event("delay", retryDelay)>>
         /\ pc' = "retryDelay"
         /\ success' = success
    ELSE /\ log' = log \o entries
         /\ pc' = "done"
         /\ success' = "false"

\* Mutant: a second run is started when the first one has returned.
HandleAutoRatingAgain ==
    /\ \/ pc = "idle" /\ initPc = "helperSettled"
       \/ pc = "done" /\ initPc = "autoRating"
    /\ pc' = "initialDelay"
    /\ initPc' = "autoRating"
    /\ log' = Append(log, Event("delay", initialDelay))
    /\ success' = "none"
    /\ UNCHANGED <<attempt, elementPresent, elementStyle, nchanges, nmanual>>
    /\ UNCHANGED <<search, userErrors, windowAlert, panelShown>>
    /\ UNCHANGED <<letterVars, watcherVars, backgroundVars, panelVars, callVars>>

\* handleAutoMode calls handleAutoRating once showHelper has settled;
\* handleAutoRating runs up to its first await, this.delay(this.initialDelay).
HandleAutoRating ==
    /\ pc = "idle"
    /\ initPc = "helperSettled"
    /\ pc' = "initialDelay"
    /\ initPc' = "autoRating"
    /\ log' = Append(log, Event("delay", initialDelay))
    /\ UNCHANGED <<attempt, elementPresent, elementStyle, nchanges, success, nmanual>>
    /\ UNCHANGED <<search, userErrors, windowAlert, panelShown>>
    /\ UNCHANGED <<letterVars, watcherVars, backgroundVars, panelVars, callVars>>

\* The initial delay elapses: clickRatingWithRetry starts with attempt = 0.
InitialDelayElapsed ==
    /\ pc = "initialDelay"
    /\ pc' = "attempt"
    /\ attempt' = 0
    /\ UNCHANGED <<elementPresent, elementStyle, nchanges, log, success, nmanual>>
    /\ UNCHANGED <<letterVars, helperVars, watcherVars, backgroundVars, panelVars, callVars>>

\* clickRating(attempt): the element is not in the document.
AttemptNotFound ==
    /\ pc = "attempt"
    /\ ~elementPresent
    /\ AfterFailedAttempt(<<Event("attempt", attempt), Event("notFound", attempt)>>)
    /\ UNCHANGED <<attempt, elementPresent, elementStyle, nchanges, nmanual>>
    /\ UNCHANGED <<letterVars, helperVars, watcherVars, backgroundVars, panelVars, callVars>>

\* clickRating(attempt): the element is found and is not visible.
AttemptNotVisible ==
    /\ pc = "attempt"
    /\ elementPresent
    /\ ~isVisible
    /\ AfterFailedAttempt(<<Event("attempt", attempt), Event("notVisible", attempt)>>)
    /\ UNCHANGED <<attempt, elementPresent, elementStyle, nchanges, nmanual>>
    /\ UNCHANGED <<letterVars, helperVars, watcherVars, backgroundVars, panelVars, callVars>>

\* Mutant: the element is clicked twice.
AttemptClickTwice ==
    /\ pc = "attempt"
    /\ elementPresent
    /\ isVisible
    /\ log' = log \o <<Event("attempt", attempt), Event("click", attempt),
                       Event("click", attempt), Event("delay", settleDelay)>>
    /\ pc' = "settle"
    /\ UNCHANGED <<attempt, elementPresent, elementStyle, nchanges, success, nmanual>>
    /\ UNCHANGED <<letterVars, helperVars, watcherVars, backgroundVars, panelVars, callVars>>

\* clickRating(attempt): the element is found and visible; it is clicked
\* and the settle delay is set.
AttemptClick ==
    /\ pc = "attempt"
    /\ elementPresent
    /\ isVisible
    /\ log' = log \o <<Event("attempt", attempt), Event("click", attempt),
                       Event("delay", settleDelay)>>
    /\ pc' = "settle"
    /\ UNCHANGED <<attempt, elementPresent, elementStyle, nchanges, success, nmanual>>
    /\ UNCHANGED <<letterVars, helperVars, watcherVars, backgroundVars, panelVars, callVars>>

\* Mutant: clickRating has no catch block, so the exception ends the loop and
\* the catch block of handleAutoRating returns false.
AttemptThrowsEndsRun ==
    /\ pc = "attempt"
    /\ elementPresent
    /\ log' = log \o <<Event("attempt", attempt), Event("error", attempt)>>
    /\ pc' = "done"
    /\ success' = "false"
    /\ UNCHANGED <<attempt, elementPresent, elementStyle, nchanges, nmanual>>
    /\ UNCHANGED <<letterVars, helperVars, watcherVars, backgroundVars, panelVars, callVars>>

\* clickRating(attempt): the visibility check or the click throws; the catch
\* block logs the error and returns false.
AttemptThrows ==
    /\ pc = "attempt"
    /\ elementPresent
    /\ AfterFailedAttempt(<<Event("attempt", attempt), Event("error", attempt)>>)
    /\ UNCHANGED <<attempt, elementPresent, elementStyle, nchanges, nmanual>>
    /\ UNCHANGED <<letterVars, helperVars, watcherVars, backgroundVars, panelVars, callVars>>

\* The settle delay elapses: validateRatingClick looks the element up again.
SettleElapsed ==
    /\ pc = "settle"
    /\ IF validateRatingClick
       THEN /\ pc' = "done"
            /\ success' = "true"
            /\ log' = log
       ELSE AfterFailedAttempt(<<>>)
    /\ UNCHANGED <<attempt, elementPresent, elementStyle, nchanges, nmanual>>
    /\ UNCHANGED <<letterVars, helperVars, watcherVars, backgroundVars, panelVars, callVars>>

\* The retry delay elapses: attempt++ and the loop body runs again.
RetryDelayElapsed ==
    /\ pc = "retryDelay"
    /\ pc' = "attempt"
    /\ attempt' = attempt + 1
    /\ UNCHANGED <<elementPresent, elementStyle, nchanges, log, success, nmanual>>
    /\ UNCHANGED <<letterVars, helperVars, watcherVars, backgroundVars, panelVars, callVars>>

\* triggerManualRating(): the public method "for testing/debugging" calls
\* clickRatingWithRetry directly, with no initial delay.  No code of the
\* extension calls it; it is called here once initialize has completed and
\* while no run is in flight.  log is the record of the run under way, so it
\* starts afresh.
TriggerManualRating ==
    /\ nmanual < MaxManualRuns
    /\ initPc = "initialized"
    /\ pc \in {"idle", "done"}
    /\ nmanual' = nmanual + 1
    /\ pc' = "attempt"
    /\ attempt' = 0
    /\ log' = <<>>
    /\ success' = "none"
    /\ UNCHANGED <<elementPresent, elementStyle, nchanges>>
    /\ UNCHANGED <<letterVars, helperVars, watcherVars, backgroundVars, panelVars, callVars>>

\* The host page adds, removes or restyles the rating element while the
\* controller is suspended.
PageChange ==
    /\ nchanges < MaxPageChanges
    /\ \E p \in BOOLEAN, s \in Styles :
          /\ ~p => s = ShownStyle
          /\ <<p, s>> # <<elementPresent, elementStyle>>
          /\ elementPresent' = p
          /\ elementStyle' = s
    /\ nchanges' = nchanges + 1
    /\ UNCHANGED <<pc, attempt, log, success, nmanual>>
    /\ UNCHANGED <<letterVars, helperVars, watcherVars, backgroundVars, panelVars, callVars>>

(***************************************************************************)
(* VMHelper.initialize                                                     *)
(***************************************************************************)
InitHelper ==
    /\ search \in SearchStrings
    /\ initPc = "notStarted"
    /\ userErrors = 0
    /\ windowAlert = "blocked"
    /\ panelShown = "none"

\* initialize() up to "await this.uiManager.createFloatingButton()": the
\* UIManager and the AutoRatingManager are constructed.
InitializeStart ==
    /\ initPc = "notStarted"
    /\ initPc' = "floatingButton"
    /\ UNCHANGED <<search, userErrors, windowAlert, panelShown>>
    /\ UNCHANGED <<letterVars, ratingVars, watcherVars, backgroundVars, panelVars, callVars>>

\* The rest of initialize() when handleAutoMode is not awaited or has
\* returned: window.alert is overridden and isInitialized is set.
FinishInitialize ==
    /\ windowAlert' = "closing"
    /\ initPc' = "initialized"

\* createFloatingButton() has resolved: shouldAutoRun is computed.  With it,
\* handleAutoMode is entered and awaits showHelper(); without it initialize
\* runs to its end.
FloatingButtonCreated ==
    /\ initPc = "floatingButton"
    /\ IF shouldPerformAutoRating
       THEN initPc' = "autoMode" /\ windowAlert' = windowAlert
       ELSE FinishInitialize
    /\ UNCHANGED <<search, userErrors, panelShown>>
    /\ UNCHANGED <<letterVars, ratingVars, watcherVars, backgroundVars, panelVars, callVars>>

\* Mutant: showHelper has no catch block, so a failure of the panel rejects
\* into the catch block of handleAutoMode and handleAutoRating is skipped.
ShowHelperRejects ==
    /\ initPc = "autoMode"
    /\ \E shown \in BOOLEAN :
          IF shown
          THEN /\ panelShown' = "shown"
               /\ initPc' = "helperSettled"
               /\ windowAlert' = windowAlert
          ELSE /\ panelShown' = "failed"
               /\ FinishInitialize
    /\ UNCHANGED <<search, userErrors>>
    /\ UNCHANGED <<letterVars, ratingVars, watcherVars, backgroundVars, panelVars, callVars>>

\* showHelper() settles: the panel is shown, or uiManager.initialize() threw
\* and the catch block called ErrorUtils.showUserError.  It never rejects.
ShowHelper ==
    /\ initPc = "autoMode"
    /\ initPc' = "helperSettled"
    /\ \E shown \in BOOLEAN :
          /\ panelShown' = IF shown THEN "shown" ELSE "failed"
          /\ userErrors' = IF shown THEN userErrors ELSE userErrors + 1
    /\ UNCHANGED <<search, windowAlert>>
    /\ UNCHANGED <<letterVars, ratingVars, watcherVars, backgroundVars, panelVars, callVars>>

\* handleAutoRating() has returned true or false: handleAutoMode returns and
\* initialize runs to its end.
InitializeCompletes ==
    /\ initPc = "autoRating"
    /\ pc = "done"
    /\ FinishInitialize
    /\ UNCHANGED <<search, userErrors, panelShown>>
    /\ UNCHANGED <<letterVars, ratingVars, watcherVars, backgroundVars, panelVars, callVars>>

NextRating ==
    \/ InitializeStart
    \/ FloatingButtonCreated
    \/ ShowHelper
    \/ HandleAutoRating
    \/ InitialDelayElapsed
    \/ AttemptNotFound
    \/ AttemptNotVisible
    \/ AttemptClick
    \/ AttemptThrows
    \/ SettleElapsed
    \/ RetryDelayElapsed
    \/ InitializeCompletes
    \/ TriggerManualRating
    \/ PageChange

(***************************************************************************)
(* The tab-close watcher (top of src/content.js).                          *)
(* A URL is a sequence of tokens: the address up to the fragment, then the *)
(* fragment if there is one.  An event of the page is one dispatch of a    *)
(* listener, a timer or a call the watcher reacts to.                      *)
(***************************************************************************)
TARGET_URL == <<"https://letter.worldvision.or.kr/mypage/letterlist/letterviewok.do">>
LETTER_URL == <<"https://letter.worldvision.or.kr/mypage/letterlist/letterview.do">>
FRAGMENT == "#top"

Urls == {TARGET_URL, TARGET_URL \o <<FRAGMENT>>, LETTER_URL, LETTER_URL \o <<FRAGMENT>>}

\* The address without its fragment.
Base(url) == <<url[1]>>

\* '번역완료'
DONE_WORD == "translation-complete"
\* ' 되었습니다.'
DONE_TAIL == " it-is."

\* '번역완료 되었습니다.', the text the MutationObserver looks for
SUCCESS_TEXT == <<DONE_WORD, DONE_TAIL>>
\* '번역완료', the text the alert override looks for
SUCCESS_ALERT == <<DONE_WORD>>

\* String.prototype.includes(pattern)
Includes(text, pattern) ==
    \E i \in 0..(Len(text) - Len(pattern)) :
        \A j \in 1..Len(pattern) : text[i + j] = pattern[j]

\* document.body.innerText
BodyTexts ==
    { <<>>, <<"letter">>, <<DONE_WORD>>, <<"letter", DONE_WORD, DONE_TAIL>> }

\* The argument of a call of alert().
Number == [t |-> "number", s |-> <<>>]
AlertMessages ==
    { Undefined, Number, Str(<<"expired">>), Str(<<DONE_WORD>>),
      Str(<<DONE_WORD, DONE_TAIL>>) }

\* An event of the page with the argument it came with.
PageEvent(type, arg) == [type |-> type, arg |-> arg]
NoEvent == PageEvent("none", Undefined)

InitWatcher ==
    /\ href \in Urls
    /\ lastUrl = href
    /\ bodyText \in BodyTexts
    /\ observerConnected = TRUE
    /\ formListener \in BOOLEAN
    /\ submitTimers = 0
    /\ unloaded = FALSE
    /\ lastEvent = NoEvent
    /\ nevents = 0
    /\ closeRequests = 0

\* The page is alive and the model has events left to deliver.
CanDispatch == ~unloaded /\ nevents < MaxEvents

\* Bookkeeping of every event: which one it was.
Dispatched(type, arg) ==
    /\ lastEvent' = PageEvent(type, arg)
    /\ nevents' = nevents + 1

\* sendCloseTab(openerTabId): one closeTab message to the background.
sendCloseTab == closeRequests' = closeRequests + 1

\* Mutant: the location only has to start with the target address.
IsTargetUpToFragment(url) == Base(url) = TARGET_URL

\* location.href === TARGET_URL
IsTarget(url) == url = TARGET_URL

\* checkUrlAndCloseIfNeeded() run with location.href = url
checkUrlAndCloseIfNeeded(url) ==
    IF IsTarget(url) THEN sendCloseTab ELSE closeRequests' = closeRequests

\* history.pushState / replaceState by the page: the location changes and no
\* event is dispatched.
Navigate ==
    /\ CanDispatch
    /\ \E url \in Urls : url # href /\ href' = url
    /\ Dispatched("pushState", Undefined)
    /\ UNCHANGED <<lastUrl, bodyText, observerConnected, formListener,
                   submitTimers, unloaded, closeRequests>>
    /\ UNCHANGED <<letterVars, ratingVars, helperVars, backgroundVars, panelVars, callVars>>

\* popstate: the history is traversed to an entry of this document.
PopState ==
    /\ CanDispatch
    /\ \E url \in Urls : href' = url
    /\ Dispatched("popstate", Undefined)
    /\ checkUrlAndCloseIfNeeded(href')
    /\ UNCHANGED <<lastUrl, bodyText, observerConnected, formListener,
                   submitTimers, unloaded>>
    /\ UNCHANGED <<letterVars, ratingVars, helperVars, backgroundVars, panelVars, callVars>>

\* hashchange: only the fragment of the location has changed.
HashChange ==
    /\ CanDispatch
    /\ \E url \in Urls : url # href /\ Base(url) = Base(href) /\ href' = url
    /\ Dispatched("hashchange", Undefined)
    /\ checkUrlAndCloseIfNeeded(href')
    /\ UNCHANGED <<lastUrl, bodyText, observerConnected, formListener,
                   submitTimers, unloaded>>
    /\ UNCHANGED <<letterVars, ratingVars, helperVars, backgroundVars, panelVars, callVars>>

\* Mutant: the poll does not remember the location it has checked.
PollTickForgetful ==
    /\ CanDispatch
    /\ Dispatched("tick", Undefined)
    /\ IF href # lastUrl
       THEN checkUrlAndCloseIfNeeded(href)
       ELSE closeRequests' = closeRequests
    /\ UNCHANGED <<href, lastUrl, bodyText, observerConnected, formListener,
                   submitTimers, unloaded>>
    /\ UNCHANGED <<letterVars, ratingVars, helperVars, backgroundVars, panelVars, callVars>>

\* One tick of setInterval(..., 500).
PollTick ==
    /\ CanDispatch
    /\ Dispatched("tick", Undefined)
    /\ IF href # lastUrl
       THEN /\ lastUrl' = href
            /\ checkUrlAndCloseIfNeeded(href)
       ELSE /\ lastUrl' = lastUrl
            /\ closeRequests' = closeRequests
    /\ UNCHANGED <<href, bodyText, observerConnected, formListener,
                   submitTimers, unloaded>>
    /\ UNCHANGED <<letterVars, ratingVars, helperVars, backgroundVars, panelVars, callVars>>

\* submit of form[name="letter_view"]: the listener sets a timer of 100 ms.
FormSubmit ==
    /\ CanDispatch
    /\ formListener
    /\ Dispatched("submit", Undefined)
    /\ submitTimers' = submitTimers + 1
    /\ UNCHANGED <<href, lastUrl, bodyText, observerConnected, formListener,
                   unloaded, closeRequests>>
    /\ UNCHANGED <<letterVars, ratingVars, helperVars, backgroundVars, panelVars, callVars>>

\* A timer of the submit listener fires.
SubmitTimerFires ==
    /\ CanDispatch
    /\ submitTimers > 0
    /\ Dispatched("submitTimer", Undefined)
    /\ submitTimers' = submitTimers - 1
    /\ checkUrlAndCloseIfNeeded(href)
    /\ UNCHANGED <<href, lastUrl, bodyText, observerConnected, formListener,
                   unloaded>>
    /\ UNCHANGED <<letterVars, ratingVars, helperVars, backgroundVars, panelVars, callVars>>

\* Mutant: the observer is left connected after it has sent.
DomMutationObserverStays ==
    /\ CanDispatch
    /\ \E text \in BodyTexts : bodyText' = text
    /\ Dispatched("mutation", Undefined)
    /\ IF observerConnected /\ Includes(bodyText', SUCCESS_TEXT)
       THEN sendCloseTab
       ELSE closeRequests' = closeRequests
    /\ UNCHANGED <<href, lastUrl, observerConnected, formListener, submitTimers,
                   unloaded>>
    /\ UNCHANGED <<letterVars, ratingVars, helperVars, backgroundVars, panelVars, callVars>>

\* The page changes the children of document.body; the callback of the
\* MutationObserver runs if the observer is connected, and sees the new text.
DomMutation ==
    /\ CanDispatch
    /\ \E text \in BodyTexts : bodyText' = text
    /\ Dispatched("mutation", Undefined)
    /\ IF observerConnected /\ Includes(bodyText', SUCCESS_TEXT)
       THEN /\ sendCloseTab
            /\ observerConnected' = FALSE
       ELSE /\ closeRequests' = closeRequests
            /\ observerConnected' = observerConnected
    /\ UNCHANGED <<href, lastUrl, formListener, submitTimers, unloaded>>
    /\ UNCHANGED <<letterVars, ratingVars, helperVars, backgroundVars, panelVars, callVars>>

\* beforeunload: the page is about to go.
BeforeUnload ==
    /\ CanDispatch
    /\ Dispatched("beforeunload", Undefined)
    /\ sendCloseTab
    /\ unloaded' = TRUE
    /\ UNCHANGED <<href, lastUrl, bodyText, observerConnected, formListener,
                   submitTimers>>
    /\ UNCHANGED <<letterVars, ratingVars, helperVars, backgroundVars, panelVars, callVars>>

\* A call alert(message).  Until initialize has run to its end window.alert
\* is the function that does nothing; after it, it is the override that
\* looks at the message first.
AlertCall ==
    /\ CanDispatch
    /\ \E message \in AlertMessages :
          /\ Dispatched("alert", message)
          /\ IF /\ windowAlert = "closing"
                /\ message.t = "string"
                /\ Includes(message.s, SUCCESS_ALERT)
             THEN sendCloseTab
             ELSE closeRequests' = closeRequests
    /\ UNCHANGED <<href, lastUrl, bodyText, observerConnected, formListener,
                   submitTimers, unloaded>>
    /\ UNCHANGED <<letterVars, ratingVars, helperVars, backgroundVars, panelVars, callVars>>

NextWatcher ==
    \/ InitializeStart
    \/ FloatingButtonCreated
    \/ Navigate
    \/ PopState
    \/ HashChange
    \/ PollTick
    \/ FormSubmit
    \/ SubmitTimerFires
    \/ DomMutation
    \/ BeforeUnload
    \/ AlertCall

(***************************************************************************)
(* BackgroundManager (src/background.js) and the link handling of          *)
(* src/popup-to-tab.js.  A message URL is a sequence of tokens: scheme,    *)
(* host, then the pieces of path, query and fragment.                      *)
(***************************************************************************)
\* 'letter.worldvision.or.kr'
ALLOWED_HOST == "letter.worldvision.or.kr"
\* 'letterview.do'
LETTER_PAGE == "letterview.do"

\* The host of a URL.
Host(url) == url[2]

\* processLink: `${window.location.origin}/mypage/letterlist/letterview.do?...`
LinkUrl(host) ==
    <<"https://", host, "/mypage/letterlist/", LETTER_PAGE,
      "?letter_seq=1&letter_mseq=2&isfinished=0&auto_helper=1">>

\* The hosts of the pages the link handler runs on.
LinkHosts == {ALLOWED_HOST, "www.worldvision.or.kr"}

\* message.url of an openInNewTab message; <<>> is a message without url.
RequestUrls ==
    { <<>>,
      LinkUrl(ALLOWED_HOST),
      <<"https://", ALLOWED_HOST, "/mypage/letterlist/", "letterlist.do">>,
      <<"https://", "evil.example", "/", LETTER_PAGE>>,
      <<"https://", "evil.example", "/", ALLOWED_HOST, "/", LETTER_PAGE>>,
      <<"https://", "evil.example", "/?next=", ALLOWED_HOST, "&page=", LETTER_PAGE>>,
      <<"https://", "evil.example", "/", LETTER_PAGE, "#", ALLOWED_HOST>> }

\* A message of a content script; click tells that processLink has sent it
\* and waits for the response.
Message(action, url, sender, click) ==
    [action |-> action, url |-> url, sender |-> sender, click |-> click]

\* The tabs open when the service worker starts: the letter list and a
\* letter page.
LIST_TAB == 1
LETTER_TAB == 2

InitBackground ==
    /\ inbox = <<>>
    /\ openTabs = {LIST_TAB, LETTER_TAB}
    /\ createdUrls = <<>>
    /\ handled = <<>>
    /\ nmessages = 0
    /\ clickPc = "none"
    /\ clickResponse = "none"
    /\ fallbacks = 0

\* isTargetDomain(url)
isTargetDomain(url) ==
    IF url = <<>> THEN FALSE
    ELSE Includes(url, <<ALLOWED_HOST>>) /\ Includes(url, <<LETTER_PAGE>>)

\* chrome.runtime.sendMessage(message)
PostMessage(message) ==
    /\ nmessages < MaxMessages
    /\ nmessages' = nmessages + 1
    /\ inbox' = Append(inbox, message)

\* sendCloseTab() in the content script of the letter page.
SendCloseTabMessage ==
    /\ LETTER_TAB \in openTabs
    /\ PostMessage(Message("closeTab", <<>>, LETTER_TAB, FALSE))
    /\ UNCHANGED <<openTabs, createdUrls, handled, clickPc, clickResponse, fallbacks>>
    /\ UNCHANGED <<letterVars, ratingVars, helperVars, watcherVars, panelVars, callVars>>

\* An openInNewTab message of the content script of the letter page, with
\* any url.
SendOpenRequest ==
    /\ LETTER_TAB \in openTabs
    /\ \E url \in RequestUrls :
          PostMessage(Message("openInNewTab", url, LETTER_TAB, FALSE))
    /\ UNCHANGED <<openTabs, createdUrls, handled, clickPc, clickResponse, fallbacks>>
    /\ UNCHANGED <<letterVars, ratingVars, helperVars, watcherVars, panelVars, callVars>>

\* A log message of the content script of the letter page.
SendLogMessage ==
    /\ LETTER_TAB \in openTabs
    /\ PostMessage(Message("log", <<>>, LETTER_TAB, FALSE))
    /\ UNCHANGED <<openTabs, createdUrls, handled, clickPc, clickResponse, fallbacks>>
    /\ UNCHANGED <<letterVars, ratingVars, helperVars, watcherVars, panelVars, callVars>>

\* fallbackOpenTab(url): window.open, or navigation of the current tab.
fallbackOpenTab == fallbacks' = fallbacks + 1

\* processLink for a click on a goWindowOpen link of the list page: the
\* message is sent with the url built from the origin of the page.
ProcessLink ==
    /\ clickPc = "none"
    /\ LIST_TAB \in openTabs
    /\ \E host \in LinkHosts :
          PostMessage(Message("openInNewTab", LinkUrl(host), LIST_TAB, TRUE))
    /\ clickPc' = "awaiting"
    /\ UNCHANGED <<openTabs, createdUrls, handled, clickResponse, fallbacks>>
    /\ UNCHANGED <<letterVars, ratingVars, helperVars, watcherVars, panelVars, callVars>>

\* processLink when chrome.runtime.sendMessage is not there or throws.
ProcessLinkFallsBack ==
    /\ clickPc = "none"
    /\ LIST_TAB \in openTabs
    /\ fallbackOpenTab
    /\ clickPc' = "done"
    /\ UNCHANGED <<inbox, openTabs, createdUrls, handled, nmessages, clickResponse>>
    /\ UNCHANGED <<letterVars, ratingVars, helperVars, watcherVars, panelVars, callVars>>

\* What handleMessage has done with a message.
Handled(message, response) == [message |-> message, response |-> response]

\* sendResponse as the sender of the message sees it.
Respond(message, response) ==
    /\ handled' = Append(handled, Handled(message, response))
    /\ clickResponse' = IF message.click THEN response ELSE clickResponse

\* handleMessage for an openInNewTab message: handleOpenInNewTab.
HandleOpenInNewTab ==
    /\ inbox # <<>>
    /\ Head(inbox).action = "openInNewTab"
    /\ inbox' = Tail(inbox)
    /\ LET message == Head(inbox) IN
       IF ~isTargetDomain(message.url)
       THEN /\ Respond(message, "failure")
            /\ UNCHANGED <<openTabs, createdUrls>>
       ELSE \E created \in BOOLEAN :
               IF created
               THEN /\ openTabs' = openTabs \cup {LETTER_TAB + Len(createdUrls) + 1}
                    /\ createdUrls' = Append(createdUrls, message.url)
                    /\ Respond(message, "success")
               ELSE /\ Respond(message, "failure")
                    /\ UNCHANGED <<openTabs, createdUrls>>
    /\ UNCHANGED <<nmessages, clickPc, fallbacks>>
    /\ UNCHANGED <<letterVars, ratingVars, helperVars, watcherVars, panelVars, callVars>>

\* handleMessage for a log message.
HandleLog ==
    /\ inbox # <<>>
    /\ Head(inbox).action = "log"
    /\ inbox' = Tail(inbox)
    /\ Respond(Head(inbox), "success")
    /\ UNCHANGED <<openTabs, createdUrls, nmessages, clickPc, fallbacks>>
    /\ UNCHANGED <<letterVars, ratingVars, helperVars, watcherVars, panelVars, callVars>>

\* handleMessage for any other action, closeTab among them: the default
\* branch answers { success: false, error: 'Unknown action' }.
HandleUnknown ==
    /\ inbox # <<>>
    /\ Head(inbox).action \notin {"openInNewTab", "log"}
    /\ inbox' = Tail(inbox)
    /\ Respond(Head(inbox), "failure")
    /\ UNCHANGED <<openTabs, createdUrls, nmessages, clickPc, fallbacks>>
    /\ UNCHANGED <<letterVars, ratingVars, helperVars, watcherVars, panelVars, callVars>>

\* The message of processLink does not reach the service worker:
\* chrome.runtime.lastError is set when the callback runs.
MessageLost ==
    /\ inbox # <<>>
    /\ Head(inbox).click
    /\ inbox' = Tail(inbox)
    /\ clickResponse' = "lastError"
    /\ UNCHANGED <<openTabs, createdUrls, handled, nmessages, clickPc, fallbacks>>
    /\ UNCHANGED <<letterVars, ratingVars, helperVars, watcherVars, panelVars, callVars>>

\* The callback of chrome.runtime.sendMessage in processLink.
ResponseCallback ==
    /\ clickPc = "awaiting"
    /\ clickResponse # "none"
    /\ clickPc' = "done"
    /\ IF clickResponse = "lastError"
       THEN fallbackOpenTab
       ELSE fallbacks' = fallbacks
    /\ UNCHANGED <<inbox, openTabs, createdUrls, handled, nmessages, clickResponse>>
    /\ UNCHANGED <<letterVars, ratingVars, helperVars, watcherVars, panelVars, callVars>>

\* The user closes the tab of the letter page.
UserClosesTab ==
    /\ LETTER_TAB \in openTabs
    /\ openTabs' = openTabs \ {LETTER_TAB}
    /\ UNCHANGED <<inbox, createdUrls, handled, nmessages, clickPc, clickResponse,
                   fallbacks>>
    /\ UNCHANGED <<letterVars, ratingVars, helperVars, watcherVars, panelVars, callVars>>

NextBackground ==
    \/ SendCloseTabMessage
    \/ SendOpenRequest
    \/ SendLogMessage
    \/ ProcessLink
    \/ ProcessLinkFallsBack
    \/ HandleOpenInNewTab
    \/ HandleLog
    \/ HandleUnknown
    \/ MessageLost
    \/ ResponseCallback
    \/ UserClosesTab

(***************************************************************************)
(* UIManager (ui-components.js section): the floating button, the panel    *)
(* and manual template generation.                                         *)
(*                                                                         *)
(* The text of a cell of the page is a sequence of tokens in which ",",    *)
(* "(", ")" and " " stand for themselves and every other token is a run of *)
(* characters that holds none of them.                                     *)
(***************************************************************************)
\* A cell of the page's table: missing, or present with its textContent.
AbsentCell == [present |-> FALSE, text |-> <<>>]
Cell(text) == [present |-> TRUE, text |-> text]

RECURSIVE TrimLeft(_)
TrimLeft(s) == IF s # <<>> /\ s[1] = " " THEN TrimLeft(Tail(s)) ELSE s

RECURSIVE TrimRight(_)
TrimRight(s) ==
    IF s # <<>> /\ s[Len(s)] = " " THEN TrimRight(SubSeq(s, 1, Len(s) - 1)) ELSE s

\* String.prototype.trim
Trim(s) == TrimRight(TrimLeft(s))

\* getTextContent(element): element ? element.textContent.trim() : ''
getTextContent(cell) == IF cell.present THEN Str(Trim(cell.text)) ELSE Str(<<>>)

NoParens(s) == \A i \in 1..Len(s) : s[i] \notin {"(", ")"}

\* What /\s*([^()]+)(?:\s*\([^)]*\))?$/ captures when it matches the whole
\* of `rest`, the text after a comma: <<capture>>, or <<>> for no match.
\* The capture is taken before it is trimmed, so the white space that \s*
\* may or may not consume makes no difference to the result.
CaptureAfterComma(rest) ==
    IF rest # <<>> /\ NoParens(rest)
    THEN <<rest>>
    ELSE LET opens == {i \in 2..Len(rest) :
                          /\ rest[i] = "("
                          /\ NoParens(SubSeq(rest, 1, i - 1))
                          /\ rest[Len(rest)] = ")"
                          /\ \A j \in (i + 1)..(Len(rest) - 1) : rest[j] # ")"}
         IN IF opens = {}
            THEN <<>>
            ELSE <<SubSeq(rest, 1, (CHOOSE i \in opens : TRUE) - 1)>>

\* StringUtils.extractName(text): the regex is tried from the leftmost comma
\* on; match[1].trim(), or null.
extractName(text) ==
    IF Falsy(text)
    THEN Null
    ELSE LET Rest(i) == SubSeq(text.s, i + 1, Len(text.s))
             commas == {i \in 1..Len(text.s) :
                           text.s[i] = "," /\ CaptureAfterComma(Rest(i)) # <<>>}
         IN IF commas = {}
            THEN Null
            ELSE LET first == CHOOSE i \in commas : \A j \in commas : i <= j
                 IN Str(Trim(CaptureAfterComma(Rest(first))[1]))

\* '한글 이름' and '영문 이름', the field names of extractLetterData
KOREAN_NAME_FIELD == "Korean name"
ENGLISH_NAME_FIELD == "English name"
\* '필수 정보를 찾을 수 없습니다: '
REQUIRED_NOT_FOUND == "Required information not found: "
\* '(페이지 선택자를 확인해주세요)'
CHECK_SELECTORS == "(check the page selectors)"
\* '편지 유형과 작성자 유형을 선택해주세요.'
SELECT_TYPES == <<"Select the letter type and the author type.">>
\* '템플릿 생성 중 오류가 발생했습니다: '
GENERATION_ERROR == "An error occurred while generating the template: "
\* '번역 입력창을 찾을 수 없습니다.\n(페이지 선택자를 확인해주세요)'
TEXTAREA_NOT_FOUND == <<"Translation input not found.", NL, CHECK_SELECTORS>>
\* '도우미를 여는 중 오류가 발생했습니다.'
OPEN_ERROR == <<"An error occurred while opening the helper.">>
\* '문제가 지속되면 개발자에게 문의해주세요.'
CONTACT_INFO == "If the problem persists, contact the developer."
\* The message of the TypeError of reading a property of null.
NULL_TYPE_ERROR == <<"Cannot read properties of null">>

\* StringUtils.validateRequiredFields(fields).missing, for the two fields
\* extractLetterData passes, in the order of the object literal.
validateRequiredFields(koreanName, englishName) ==
    LET IsMissing(value) == Falsy(value) \/ Trim(value.s) = <<>>
    IN (IF IsMissing(koreanName) THEN <<KOREAN_NAME_FIELD>> ELSE <<>>)
       \o (IF IsMissing(englishName) THEN <<ENGLISH_NAME_FIELD>> ELSE <<>>)

\* extractLetterData(): the object returned, or the message of the Error
\* thrown.  The sponsor's name is taken as the cell holds it and is not
\* validated here.
extractLetterData ==
    LET koreanName == extractName(getTextContent(koreanCell))
        englishName == extractName(getTextContent(englishCell))
        missing == validateRequiredFields(koreanName, englishName)
    IN IF missing # <<>>
       THEN [kind |-> "thrown",
             message |-> <<REQUIRED_NOT_FOUND>>
                            \o Join([i \in 1..Len(missing) |-> <<missing[i]>>], <<", ">>)
                            \o <<NL, CHECK_SELECTORS>>,
             data |-> NoObject("undefined")]
       ELSE [kind |-> "returned",
             message |-> <<>>,
             data |-> [shape |-> "object",
                       sponsorName |-> getTextContent(sponsorCell),
                       childKoreanName |-> koreanName,
                       childEnglishName |-> englishName]]

\* Mutant: textarea.value += template
insertTemplateAppending(template) ==
    IF ~textareaPresent
    THEN [success |-> FALSE, value |-> textareaValue, focused |-> textareaFocused,
          writes |-> 0, error |-> TEXTAREA_NOT_FOUND]
    ELSE [success |-> TRUE, value |-> textareaValue \o template, focused |-> TRUE,
          writes |-> 1, error |-> <<>>]

\* insertTemplate(template): what it returns, what it leaves in the textarea
\* and the message it passes to showUserError.
insertTemplate(template) ==
    IF ~textareaPresent
    THEN [success |-> FALSE, value |-> textareaValue, focused |-> textareaFocused,
          writes |-> 0, error |-> TEXTAREA_NOT_FOUND]
    ELSE [success |-> TRUE, value |-> template, focused |-> TRUE,
          writes |-> 1, error |-> <<>>]

\* Mutant: the toast and hide() are not guarded by the result of insertTemplate.
ShowsSuccessAlways(inserted) == TRUE

\* if (success) { this.showToast(...); await this.hide(); }
ShowsSuccess(inserted) == inserted.success

\* handleTemplateGeneration() up to "await this.hide()": what it leaves in
\* the textarea, whether it shows the toast and hides the panel, and the
\* message it passes to showUserError (with includeContactInfo from its
\* catch block).
handleTemplateGeneration ==
    LET Aborted(error, contact) ==
            [value |-> textareaValue, focused |-> textareaFocused, writes |-> 0,
             toasts |-> 0, hides |-> FALSE, error |-> error, contact |-> contact]
    IN IF letterTypeChecked = "none" \/ authorTypeChecked = "none"
       THEN Aborted(SELECT_TYPES, FALSE)
       ELSE LET extracted == extractLetterData
            IN IF extracted.kind = "thrown"
               THEN Aborted(<<GENERATION_ERROR>> \o extracted.message, TRUE)
               ELSE LET template == generatePersonalizedLetter(
                                        letterTypeChecked, authorTypeChecked, extracted.data)
                    IN IF template.kind = "thrown"
                       THEN Aborted(<<GENERATION_ERROR>> \o template.text, TRUE)
                       ELSE LET inserted == insertTemplate(template.text)
                            IN [value |-> inserted.value,
                                focused |-> inserted.focused,
                                writes |-> inserted.writes,
                                toasts |-> IF ShowsSuccess(inserted) THEN 1 ELSE 0,
                                hides |-> ShowsSuccess(inserted),
                                error |-> inserted.error,
                                contact |-> FALSE]

\* alert(message) as the extension's scripts reach it.  content.js replaces
\* window.alert by an empty function when it is loaded and initialize wraps
\* that function: in either state nothing is displayed.  (The wrapper sends
\* a close request for a message that includes '번역완료'; no message of
\* showUserError does.)
alert(message) ==
    /\ lastAlert' = message
    /\ dialogs' = IF windowAlert = "native" THEN dialogs + 1 ELSE dialogs

\* ErrorUtils.showUserError(message, includeContactInfo)
showUserError(message, includeContactInfo) ==
    /\ userErrors' = userErrors + 1
    /\ alert(message \o (IF includeContactInfo THEN <<NL, NL, CONTACT_INFO>> ELSE <<>>))

NoUserError == UNCHANGED <<userErrors, lastAlert, dialogs>>

pageVars == <<koreanCell, englishCell, sponsorCell, textareaPresent>>
textareaVars == <<textareaValue, textareaFocused, nwrites>>
radioVars == <<letterTypeChecked, authorTypeChecked>>

\* The cells as the page may hold them: '12345, 김민수 (남)' and
\* ' 12345, Minsu Kim ' as the site writes them, a cell without a comma, a
\* cell with nothing but the parenthesis after its comma, no cell at all.
KOREAN_CELL == Cell(<<"12345", ",", " ", "Kim Minsu", " ", "(", "M", ")">>)
ENGLISH_CELL == Cell(<<" ", "12345", ",", " ", "Minsu", " ", "Kim", " ">>)
SPONSOR_CELL == Cell(<<"Hong Gildong">>)
NO_COMMA_CELL == Cell(<<"Kim Minsu">>)
NO_NAME_CELL == Cell(<<"12345", ",", " ", "(", "M", ")">>)

PageOf(korean, english, sponsor, textarea) ==
    [korean |-> korean, english |-> english, sponsor |-> sponsor,
     textarea |-> textarea]

\* The pages the panel is opened on: the letter page as the site serves it,
\* the same without the sponsor's cell, without the textarea, with names
\* that cannot be extracted, and a page that holds nothing of the form.
Pages ==
    { PageOf(KOREAN_CELL, ENGLISH_CELL, SPONSOR_CELL, TRUE),
      PageOf(KOREAN_CELL, ENGLISH_CELL, AbsentCell, TRUE),
      PageOf(KOREAN_CELL, ENGLISH_CELL, SPONSOR_CELL, FALSE),
      PageOf(AbsentCell, NO_NAME_CELL, SPONSOR_CELL, TRUE),
      PageOf(NO_COMMA_CELL, ENGLISH_CELL, SPONSOR_CELL, TRUE),
      PageOf(AbsentCell, NO_NAME_CELL, AbsentCell, FALSE) }
\* What the translator has typed into the textarea before.
DRAFT == <<"Dear sponsor,", NL, "(draft)">>

\* new UIManager(), on a page that holds what it holds.
InitPanel ==
    /\ container = 0
    /\ attached = {}
    /\ uiVisible = FALSE
    /\ ncontainers = 0
    /\ pendingLogo = 0
    /\ pendingShow = 0
    /\ pendingHide = 0
    /\ pendingGenHide = 0
    /\ letterTypeChecked = "none"
    /\ authorTypeChecked = "none"
    /\ \E page \in Pages :
          /\ koreanCell = page.korean
          /\ englishCell = page.english
          /\ sponsorCell = page.sponsor
          /\ textareaPresent = page.textarea
    /\ textareaValue = (IF textareaPresent THEN DRAFT ELSE <<>>)
    /\ textareaFocused = FALSE
    /\ nwrites = 0
    /\ toasts = 0
    /\ lastAlert = <<>>
    /\ dialogs = 0
    /\ unhandled = 0
    /\ nclicks = 0
    /\ ngenerations = 0

\* if (this.isVisible) { this.hide(); } else { this.show(); }, each up to its
\* await: show() and hide() return at once without a container, set
\* isVisible and start their animation.
Toggle ==
    IF container = 0
    THEN UNCHANGED <<uiVisible, pendingShow, pendingHide>>
    ELSE IF uiVisible
         THEN /\ uiVisible' = FALSE
              /\ pendingHide' = pendingHide + 1
              /\ pendingShow' = pendingShow
         ELSE /\ uiVisible' = TRUE
              /\ pendingShow' = pendingShow + 1
              /\ pendingHide' = pendingHide

\* A click on the floating button: handleFloatingButtonClick() up to its
\* first await.  Without an attached container createUI() makes a new one,
\* with the radios of getContainerHTML() checked, and waits in loadLogo().
FloatingButtonClick ==
    /\ initPc # "notStarted"
    /\ nclicks < MaxClicks
    /\ nclicks' = nclicks + 1
    /\ IF container = 0 \/ container \notin attached
       THEN /\ ncontainers' = ncontainers + 1
            /\ container' = ncontainers + 1
            /\ letterTypeChecked' = HANDPRINT
            /\ authorTypeChecked' = NAMED_HELPER
            /\ pendingLogo' = pendingLogo + 1
            /\ UNCHANGED <<uiVisible, pendingShow, pendingHide>>
       ELSE /\ Toggle
            /\ UNCHANGED <<ncontainers, container, radioVars, pendingLogo>>
    /\ UNCHANGED <<attached, pendingGenHide, pageVars, textareaVars, toasts,
                   lastAlert, dialogs, unhandled, ngenerations>>
    /\ UNCHANGED <<letterVars, ratingVars, helperVars, watcherVars, backgroundVars,
                   callVars>>

\* The logo has loaded or failed to: createUI() appends this.container, the
\* click handler attaches the listeners and toggles.  appendChild(null)
\* throws into the catch block of the handler.
LogoLoaded ==
    /\ pendingLogo > 0
    /\ pendingLogo' = pendingLogo - 1
    /\ IF container = 0
       THEN /\ showUserError(OPEN_ERROR, TRUE)
            /\ UNCHANGED <<attached, uiVisible, pendingShow, pendingHide>>
       ELSE /\ attached' = attached \cup {container}
            /\ Toggle
            /\ NoUserError
    /\ UNCHANGED <<container, ncontainers, pendingGenHide, radioVars, pageVars,
                   textareaVars, toasts, unhandled, nclicks, ngenerations>>
    /\ UNCHANGED <<search, initPc, windowAlert, panelShown>>
    /\ UNCHANGED <<letterVars, ratingVars, watcherVars, backgroundVars, callVars>>

\* The timer of a show() animation fires: the promise resolves, nothing of
\* the manager changes.
ShowAnimationDone ==
    /\ pendingShow > 0
    /\ pendingShow' = pendingShow - 1
    /\ UNCHANGED <<container, attached, uiVisible, ncontainers, pendingLogo,
                   pendingHide, pendingGenHide, radioVars, pageVars, textareaVars,
                   toasts, lastAlert, dialogs, unhandled, nclicks, ngenerations>>
    /\ UNCHANGED <<letterVars, ratingVars, helperVars, watcherVars, backgroundVars,
                   callVars>>

\* The rest of hide() after its animation: this.container is removed from
\* the document and set to null.  Reading parentNode of null throws.
RemoveContainer ==
    /\ attached' = attached \ {container}
    /\ container' = 0
    /\ letterTypeChecked' = "none"
    /\ authorTypeChecked' = "none"

\* The animation of a hide() that a click started is over.  Neither listener
\* awaits or catches the promise of hide().
HideAnimationDone ==
    /\ pendingHide > 0
    /\ pendingHide' = pendingHide - 1
    /\ IF container = 0
       THEN /\ unhandled' = unhandled + 1
            /\ UNCHANGED <<attached, container, radioVars>>
       ELSE /\ RemoveContainer
            /\ unhandled' = unhandled
    /\ UNCHANGED <<uiVisible, ncontainers, pendingLogo, pendingShow, pendingGenHide,
                   pageVars, textareaVars, toasts, lastAlert, dialogs, nclicks,
                   ngenerations>>
    /\ UNCHANGED <<letterVars, ratingVars, helperVars, watcherVars, backgroundVars,
                   callVars>>

\* A click on the close button of the attached panel: () => this.hide().
CloseButtonClick ==
    /\ container # 0
    /\ container \in attached
    /\ nclicks < MaxClicks
    /\ nclicks' = nclicks + 1
    /\ uiVisible' = FALSE
    /\ pendingHide' = pendingHide + 1
    /\ UNCHANGED <<container, attached, ncontainers, pendingLogo, pendingShow,
                   pendingGenHide, radioVars, pageVars, textareaVars, toasts,
                   lastAlert, dialogs, unhandled, ngenerations>>
    /\ UNCHANGED <<letterVars, ratingVars, helperVars, watcherVars, backgroundVars,
                   callVars>>

\* The user checks another letter type in the attached panel.
SelectLetterType ==
    /\ container # 0
    /\ container \in attached
    /\ \E lt \in LETTER_TYPES \ {letterTypeChecked} : letterTypeChecked' = lt
    /\ UNCHANGED <<container, attached, uiVisible, ncontainers, pendingLogo,
                   pendingShow, pendingHide, pendingGenHide, authorTypeChecked,
                   pageVars, textareaVars, toasts, lastAlert, dialogs, unhandled,
                   nclicks, ngenerations>>
    /\ UNCHANGED <<letterVars, ratingVars, helperVars, watcherVars, backgroundVars,
                   callVars>>

\* The user checks another author type in the attached panel.
SelectAuthorType ==
    /\ container # 0
    /\ container \in attached
    /\ \E at \in AUTHOR_TYPES \ {authorTypeChecked} : authorTypeChecked' = at
    /\ UNCHANGED <<container, attached, uiVisible, ncontainers, pendingLogo,
                   pendingShow, pendingHide, pendingGenHide, letterTypeChecked,
                   pageVars, textareaVars, toasts, lastAlert, dialogs, unhandled,
                   nclicks, ngenerations>>
    /\ UNCHANGED <<letterVars, ratingVars, helperVars, watcherVars, backgroundVars,
                   callVars>>

\* A script of the page clears the checked letter type of the attached panel
\* (the panel is part of the page's document): the case the handler tests
\* with !letterTypeInput.
RadioUnchecked ==
    /\ container # 0
    /\ container \in attached
    /\ letterTypeChecked # "none"
    /\ letterTypeChecked' = "none"
    /\ UNCHANGED <<container, attached, uiVisible, ncontainers, pendingLogo,
                   pendingShow, pendingHide, pendingGenHide, authorTypeChecked,
                   pageVars, textareaVars, toasts, lastAlert, dialogs, unhandled,
                   nclicks, ngenerations>>
    /\ UNCHANGED <<letterVars, ratingVars, helperVars, watcherVars, backgroundVars,
                   callVars>>

\* A click on the button of the attached panel runs one call of
\* handleTemplateGeneration() up to its "await this.hide()".  (A button that
\* attachEventListeners() was applied to twice runs two calls in a row.)
GenerateClick ==
    /\ container # 0
    /\ container \in attached
    /\ ngenerations < MaxGenerations
    /\ ngenerations' = ngenerations + 1
    /\ LET generation == handleTemplateGeneration
       IN /\ textareaValue' = generation.value
          /\ textareaFocused' = generation.focused
          /\ nwrites' = nwrites + generation.writes
          /\ toasts' = toasts + generation.toasts
          /\ IF generation.hides
             THEN uiVisible' = FALSE /\ pendingGenHide' = pendingGenHide + 1
             ELSE UNCHANGED <<uiVisible, pendingGenHide>>
          /\ IF generation.error # <<>>
             THEN showUserError(generation.error, generation.contact)
             ELSE NoUserError
    /\ UNCHANGED <<container, attached, ncontainers, pendingLogo, pendingShow,
                   pendingHide, radioVars, pageVars, unhandled, nclicks>>
    /\ UNCHANGED <<search, initPc, windowAlert, panelShown>>
    /\ UNCHANGED <<letterVars, ratingVars, watcherVars, backgroundVars, callVars>>

\* The animation of the hide() that handleTemplateGeneration awaits is over.
\* What the rest of hide() throws lands in the handler's catch block.
GenHideAnimationDone ==
    /\ pendingGenHide > 0
    /\ pendingGenHide' = pendingGenHide - 1
    /\ IF container = 0
       THEN /\ showUserError(<<GENERATION_ERROR>> \o NULL_TYPE_ERROR, TRUE)
            /\ UNCHANGED <<attached, container, radioVars>>
       ELSE /\ RemoveContainer
            /\ NoUserError
    /\ UNCHANGED <<uiVisible, ncontainers, pendingLogo, pendingShow, pendingHide,
                   pageVars, textareaVars, toasts, unhandled, nclicks, ngenerations>>
    /\ UNCHANGED <<search, initPc, windowAlert, panelShown>>
    /\ UNCHANGED <<letterVars, ratingVars, watcherVars, backgroundVars, callVars>>

NextPanel ==
    \/ InitializeStart
    \/ FloatingButtonCreated
    \/ FloatingButtonClick
    \/ LogoLoaded
    \/ ShowAnimationDone
    \/ HideAnimationDone
    \/ CloseButtonClick
    \/ SelectLetterType
    \/ SelectAuthorType
    \/ RadioUnchecked
    \/ GenerateClick
    \/ GenHideAnimationDone

(***************************************************************************)
(* VMHelper.initialize() called several times on the instance getInstance()*)
(* returns, each call suspended at its awaits.  The run of the controller  *)
(* is taken from its start to its return in one step.                      *)
(***************************************************************************)
Calls == 1..MaxInitCalls

\* new VMHelper(), on a page that holds no panel.
InitCalls ==
    /\ callPc = [c \in Calls |-> "notCalled"]
    /\ isInitialized = FALSE
    /\ helperContainer = FALSE
    /\ callSearch \in SearchStrings
    /\ runsStarted = 0
    /\ managers = 0

\* A call of initialize() up to "await this.uiManager.createFloatingButton()":
\* the guard on isInitialized and on the panel's element, then new managers.
InitializeCalled ==
    \E c \in Calls :
        /\ callPc[c] = "notCalled"
        /\ IF c = 1 THEN TRUE ELSE callPc[c - 1] # "notCalled"
        /\ IF isInitialized \/ helperContainer
           THEN /\ callPc' = [callPc EXCEPT ![c] = "returned"]
                /\ managers' = managers
           ELSE /\ callPc' = [callPc EXCEPT ![c] = "floatingButton"]
                /\ managers' = managers + 1
        /\ UNCHANGED <<isInitialized, helperContainer, callSearch, runsStarted>>
        /\ UNCHANGED <<letterVars, ratingVars, helperVars, watcherVars,
                       backgroundVars, panelVars>>

\* The call resumes after createFloatingButton(): with the flag it enters
\* handleAutoMode and showHelper, where UIManager.initialize() waits for the
\* logo; without it the call runs to its end and sets isInitialized.
ButtonAwaitResumes ==
    \E c \in Calls :
        /\ callPc[c] = "floatingButton"
        /\ IF has(callSearch, "auto_helper")
           THEN /\ callPc' = [callPc EXCEPT ![c] = "createUI"]
                /\ isInitialized' = isInitialized
           ELSE /\ callPc' = [callPc EXCEPT ![c] = "returned"]
                /\ isInitialized' = TRUE
        /\ UNCHANGED <<helperContainer, callSearch, runsStarted, managers>>
        /\ UNCHANGED <<letterVars, ratingVars, helperVars, watcherVars,
                       backgroundVars, panelVars>>

\* createUI() appends the container: from now on getElementById finds it.
\* The call waits for the animation of show().
PanelAttached ==
    \E c \in Calls :
        /\ callPc[c] = "createUI"
        /\ callPc' = [callPc EXCEPT ![c] = "show"]
        /\ helperContainer' = TRUE
        /\ UNCHANGED <<isInitialized, callSearch, runsStarted, managers>>
        /\ UNCHANGED <<letterVars, ratingVars, helperVars, watcherVars,
                       backgroundVars, panelVars>>

\* showHelper() has settled, with the panel shown or with its error caught:
\* handleAutoMode calls handleAutoRating(), which starts a run.
HandleAutoRatingCalled ==
    \E c \in Calls :
        /\ callPc[c] \in {"createUI", "show"}
        /\ callPc' = [callPc EXCEPT ![c] = "autoRating"]
        /\ runsStarted' = runsStarted + 1
        /\ UNCHANGED <<isInitialized, helperContainer, callSearch, managers>>
        /\ UNCHANGED <<letterVars, ratingVars, helperVars, watcherVars,
                       backgroundVars, panelVars>>

\* The run has returned: the call overrides window.alert and sets
\* isInitialized.
RunReturns ==
    \E c \in Calls :
        /\ callPc[c] = "autoRating"
        /\ callPc' = [callPc EXCEPT ![c] = "returned"]
        /\ isInitialized' = TRUE
        /\ UNCHANGED <<helperContainer, callSearch, runsStarted, managers>>
        /\ UNCHANGED <<letterVars, ratingVars, helperVars, watcherVars,
                       backgroundVars, panelVars>>

NextCalls ==
    \/ InitializeCalled
    \/ ButtonAwaitResumes
    \/ PanelAttached
    \/ HandleAutoRatingCalled
    \/ RunReturns

(***************************************************************************)
(* Specifications.                                                         *)
(***************************************************************************)
\* The page before any script of the extension has run the controller.
RatingIdle ==
    /\ pc = "idle"
    /\ attempt = 0
    /\ elementPresent = FALSE
    /\ elementStyle = ShownStyle
    /\ nchanges = 0
    /\ log = <<>>
    /\ success = "none"
    /\ nmanual = 0

\* The generator as constructed, with no call under observation.
LetterIdle ==
    /\ templateConfigs = InitialTemplateConfigs
    /\ helperStatements = InitialHelperStatements
    /\ letterType = OTHER_TYPE
    /\ authorType = CHILD
    /\ letterData = NoObject("undefined")
    /\ outcome = NoOutcome
    /\ ncalls = MaxCalls
    /\ nother = MaxOtherCalls

\* The content script before initialize is called, on a page with no query.
HelperIdle ==
    /\ search = <<>>
    /\ initPc = "notStarted"
    /\ userErrors = 0
    /\ windowAlert = "blocked"
    /\ panelShown = "none"

\* The watcher as installed, on a page that dispatches nothing.
WatcherIdle ==
    /\ href = LETTER_URL
    /\ lastUrl = LETTER_URL
    /\ bodyText = <<>>
    /\ observerConnected = TRUE
    /\ formListener = FALSE
    /\ submitTimers = 0
    /\ unloaded = FALSE
    /\ lastEvent = NoEvent
    /\ nevents = MaxEvents
    /\ closeRequests = 0

\* The service worker with nothing left to send to it.
BackgroundIdle ==
    /\ inbox = <<>>
    /\ openTabs = {LIST_TAB, LETTER_TAB}
    /\ createdUrls = <<>>
    /\ handled = <<>>
    /\ nmessages = MaxMessages
    /\ clickPc = "done"
    /\ clickResponse = "none"
    /\ fallbacks = 0

\* The panel never opened, with no click left to make.
PanelIdle ==
    /\ container = 0
    /\ attached = {}
    /\ uiVisible = FALSE
    /\ ncontainers = 0
    /\ pendingLogo = 0
    /\ pendingShow = 0
    /\ pendingHide = 0
    /\ pendingGenHide = 0
    /\ letterTypeChecked = "none"
    /\ authorTypeChecked = "none"
    /\ koreanCell = AbsentCell
    /\ englishCell = AbsentCell
    /\ sponsorCell = AbsentCell
    /\ textareaPresent = FALSE
    /\ textareaValue = <<>>
    /\ textareaFocused = FALSE
    /\ nwrites = 0
    /\ toasts = 0
    /\ lastAlert = <<>>
    /\ dialogs = 0
    /\ unhandled = 0
    /\ nclicks = MaxClicks
    /\ ngenerations = MaxGenerations

\* No further call of initialize() under observation.
CallIdle ==
    /\ callPc = [c \in Calls |-> "returned"]
    /\ isInitialized = TRUE
    /\ helperContainer = FALSE
    /\ callSearch = <<>>
    /\ runsStarted = 0
    /\ managers = 0

\* The template generator on its own: the caller picks the arguments.
LetterStart ==
    /\ InitLetter /\ RatingIdle /\ HelperIdle /\ WatcherIdle /\ BackgroundIdle
    /\ PanelIdle /\ CallIdle
SpecLetter == LetterStart /\ [][NextLetter]_vars

\* VMHelper.initialize and the auto-rating controller: the page picks the
\* query string and the element's state.
RatingStart ==
    /\ InitRating /\ InitHelper /\ LetterIdle /\ WatcherIdle /\ BackgroundIdle
    /\ PanelIdle /\ CallIdle
SpecRating == RatingStart /\ [][NextRating]_vars

\* The same with the scheduling of the browser: a continuation that is ready
\* runs and a timer that is set fires.  Nothing obliges the page to change
\* or anyone to call triggerManualRating.
Attempt == AttemptNotFound \/ AttemptNotVisible \/ AttemptClick \/ AttemptThrows
SpecRatingFair ==
    /\ SpecRating
    /\ WF_vars(InitializeStart)
    /\ WF_vars(FloatingButtonCreated)
    /\ WF_vars(ShowHelper)
    /\ WF_vars(HandleAutoRating)
    /\ WF_vars(InitialDelayElapsed)
    /\ WF_vars(Attempt)
    /\ WF_vars(SettleElapsed)
    /\ WF_vars(RetryDelayElapsed)
    /\ WF_vars(InitializeCompletes)

\* The tab-close watcher, with initialize on a page without the flag: the
\* page picks the location, the body text and the events.
WatcherStart ==
    /\ InitWatcher /\ HelperIdle /\ RatingIdle /\ LetterIdle /\ BackgroundIdle
    /\ PanelIdle /\ CallIdle
SpecWatcher == WatcherStart /\ [][NextWatcher]_vars

\* The service worker and the link handler: the content scripts pick the
\* messages.
BackgroundStart ==
    /\ InitBackground /\ LetterIdle /\ RatingIdle /\ HelperIdle /\ WatcherIdle
    /\ PanelIdle /\ CallIdle
SpecBackground == BackgroundStart /\ [][NextBackground]_vars

\* The panel and manual generation, with initialize on a page without the
\* flag: the page picks its cells and its textarea, the user the clicks.
PanelStart ==
    /\ InitPanel /\ HelperIdle /\ RatingIdle /\ LetterIdle /\ WatcherIdle
    /\ BackgroundIdle /\ CallIdle
SpecPanel == PanelStart /\ [][NextPanel]_vars

\* initialize() called up to MaxInitCalls times: the page picks the query
\* string, the callers the moments of their calls.
CallStart ==
    /\ InitCalls /\ HelperIdle /\ RatingIdle /\ LetterIdle /\ WatcherIdle
    /\ BackgroundIdle /\ PanelIdle
SpecCalls == CallStart /\ [][NextCalls]_vars

Init ==
    /\ InitLetter /\ InitRating /\ InitHelper /\ InitWatcher /\ InitBackground
    /\ InitPanel /\ InitCalls
Next == NextLetter \/ NextRating \/ NextWatcher \/ NextBackground \/ NextPanel \/ NextCalls
Spec == Init /\ [][Next]_vars

(***************************************************************************)
(* Vocabulary of the properties.                                           *)
(***************************************************************************)
Returned == ncalls > 0 /\ outcome.kind = "returned"
Thrown == ncalls > 0 /\ outcome.kind = "thrown"

FieldNames == {"sponsorName", "childKoreanName", "childEnglishName"}

\* The field holds a string of at least one character.
NonEmpty(field) == letterData.shape = "object" /\ letterData[field] \in NameValues

\* The field is '' or is not there (undefined, null, or no record to look in).
EmptyOrAbsent(field) == ~NonEmpty(field)

AllNamesGiven == \A field \in FieldNames : NonEmpty(field)

FullTypes == {HANDPRINT, PORTRAIT}

\* tok occurs in text.
Has(text, tok) == \E i \in 1..Len(text) : text[i] = tok

\* tok1 occurs in text and is directly followed by tok2.
HasPair(text, tok1, tok2) ==
    \E i \in 1..(Len(text) - 1) : text[i] = tok1 /\ text[i + 1] = tok2

\* Number of occurrences of tok in text.
Count(text, tok) == Cardinality({i \in 1..Len(text) : text[i] = tok})

\* The lines of a text: what lies between its line breaks.
RECURSIVE SplitLines(_)
SplitLines(text) ==
    IF \A i \in 1..Len(text) : text[i] # NL
    THEN <<text>>
    ELSE LET k == CHOOSE i \in 1..Len(text) :
                     text[i] = NL /\ \A j \in 1..(i - 1) : text[j] # NL
         IN <<SubSeq(text, 1, k - 1)>> \o SplitLines(SubSeq(text, k + 1, Len(text)))

(***************************************************************************)
(* C1: for letterType Handprint or Portrait, a call throws (and returns no *)
(* letter text) whenever sponsorName, childKoreanName or childEnglishName  *)
(* is empty or absent, whatever the authorType; text is returned only when *)
(* all three are non-empty.                                                *)
(***************************************************************************)
C1_FullTypesRequireAllNames ==
    (ncalls > 0 /\ letterType \in FullTypes) =>
        /\ (\E field \in FieldNames : EmptyOrAbsent(field)) => Thrown
        /\ Returned => AllNamesGiven

C1_Witness ==
    /\ letterType = PORTRAIT
    /\ authorType = CHILD
    /\ NonEmpty("sponsorName")
    /\ NonEmpty("childKoreanName")
    /\ letterData.childEnglishName = Str(<<>>)
    /\ Thrown

(***************************************************************************)
(* C2: a failed generation reports every problem in its one failure: each  *)
(* invalid type is named with its value, and for a type other than OTHER   *)
(* every required field that is empty or absent in the data record is      *)
(* named; data that is no object is reported next to the invalid types.    *)
(***************************************************************************)
C2_FailureNamesEveryProblem ==
    Thrown =>
        /\ letterType \notin LETTER_TYPES =>
              HasPair(outcome.text, "Invalid letter type: ", letterType)
        /\ authorType \notin AUTHOR_TYPES =>
              HasPair(outcome.text, "Invalid author type: ", authorType)
        /\ letterData.shape # "object" =>
              Has(outcome.text, "Letter data is required and must be an object")
        /\ (letterData.shape = "object" /\ letterType # OTHER_TYPE) =>
              \A field \in FieldNames :
                  EmptyOrAbsent(field) <=>
                      (Has(outcome.text, "Missing required fields: ")
                          /\ Has(outcome.text, field))

\* The spec's example: Portrait with data {sponsorName: ""}, and an unknown
\* author type on top of it.
C2_Witness ==
    /\ Thrown
    /\ letterType = PORTRAIT
    /\ authorType = BOGUS
    /\ letterData = [shape |-> "object", sponsorName |-> Str(<<>>),
                     childKoreanName |-> Undefined, childEnglishName |-> Undefined]
    /\ \A field \in FieldNames : Has(outcome.text, field)

(***************************************************************************)
(* C3: for every letter type, OTHER included, a call throws and returns no *)
(* text when letterType is not a known value, when authorType is not a     *)
(* known value, or when the data is missing or is not an object.           *)
(***************************************************************************)
C3_InvalidArgumentsFail ==
    (ncalls > 0 /\ (\/ letterType \notin {"HANDPRINT", "PORTRAIT", "OTHER"}
                    \/ authorType \notin {"CHILD", "ANONYMOUS_HELPER", "NAMED_HELPER"}
                    \/ letterData.shape \in {"undefined", "null", "string"}))
        => (outcome.kind = "thrown" /\ ~Returned)

C3_Witness ==
    /\ letterType = OTHER_TYPE
    /\ authorType = CHILD
    /\ letterData.shape = "string"
    /\ Thrown

(***************************************************************************)
(* C4: for letterType OTHER the three names are required: a call with any  *)
(* of them empty or absent throws instead of returning a letter.           *)
(***************************************************************************)
C4_OtherRequiresNames ==
    (ncalls > 0 /\ letterType = OTHER_TYPE
        /\ \E field \in FieldNames : EmptyOrAbsent(field)) => Thrown

(***************************************************************************)
(* Expected texts, written out from the wording of the templates.          *)
(***************************************************************************)
ValidCall == /\ letterType \in LETTER_TYPES
             /\ authorType \in AUTHOR_TYPES
             /\ AllNamesGiven

ExpectedGreeting == <<"Dear ">> \o letterData.sponsorName.s \o <<" sponsor,">>

ExpectedSignature ==
    <<"Your sponsored child, ">> \o letterData.childKoreanName.s \o <<"(">>
        \o letterData.childEnglishName.s \o <<") sincerely">>

ExpectedIntro ==
    <<"My name is ">> \o letterData.childKoreanName.s \o <<"(">>
        \o letterData.childEnglishName.s
        \o <<") is my name. Let us get to know each other!">>

ExpectedArtLine ==
    <<"- I drew my ", IF letterType = HANDPRINT THEN "handprint" ELSE "self-portrait", ".">>

\* The helper-attribution line of the author type, <<>> when it has none.
ExpectedHelperLines ==
    CASE authorType = NAMED_HELPER -> <<NAMED_STATEMENT>>
      [] authorType = ANONYMOUS_HELPER -> <<ANONYMOUS_STATEMENT>>
      [] OTHER -> <<>>

\* The lines of a sequence of lines that are not blank.
NonBlank(lines) == SelectSeq(lines, LAMBDA line : line # <<>>)

\* A sequence of lines without its k-th and (k+1)-th line.
WithoutTwo(lines, k) == SubSeq(lines, 1, k - 1) \o SubSeq(lines, k + 2, Len(lines))

(***************************************************************************)
(* C5: for letterType OTHER and valid inputs the output is exactly:        *)
(* greeting line, blank line, then (only for an author type with a         *)
(* non-empty helper statement) the helper line and a blank line, then the  *)
(* signature line as the last line; the lines are joined by single line    *)
(* breaks, with none at the end; for authorType CHILD there are exactly    *)
(* three lines and no helper block.                                        *)
(***************************************************************************)
C5_OtherTemplateShape ==
    (ncalls > 0 /\ letterType = OTHER_TYPE /\ ValidCall) =>
        /\ Returned
        /\ outcome.text =
              ExpectedGreeting \o <<NL, NL>>
                  \o (IF authorType = CHILD THEN <<>>
                      ELSE ExpectedHelperLines[1] \o <<NL, NL>>)
                  \o ExpectedSignature
        /\ LET lines == SplitLines(outcome.text)
           IN /\ lines[Len(lines)] = ExpectedSignature
              /\ outcome.text[Len(outcome.text)] # NL
              /\ Len(lines) = (IF authorType = CHILD THEN 3 ELSE 5)
              /\ authorType = CHILD =>
                    lines = <<ExpectedGreeting, <<>>, ExpectedSignature>>

C5_Witness ==
    /\ Returned
    /\ letterType = OTHER_TYPE
    /\ authorType = CHILD
    /\ letterData = [shape |-> "object", sponsorName |-> Str(<<"Hong Gildong">>),
                     childKoreanName |-> Str(<<"Kim Minsu">>),
                     childEnglishName |-> Str(<<"Minsu", " ", "Kim">>)]
    /\ Len(SplitLines(outcome.text)) = 3

(***************************************************************************)
(* C6: for letterType HANDPRINT or PORTRAIT and valid inputs the lines     *)
(* come in the fixed order greeting, intro, art-element line (handprint    *)
(* noun or self-portrait noun), the fixed prompts, the village prompt for  *)
(* PORTRAIT only, the closing lines, the optional helper line, and the     *)
(* signature last; the Portrait output differs from the Handprint output   *)
(* for the same author and names only in the art noun and in the village   *)
(* prompt with its blank separator.                                        *)
(***************************************************************************)
C6_FullTemplateOrder ==
    (ncalls > 0 /\ letterType \in FullTypes /\ ValidCall) =>
        /\ Returned
        /\ LET lines == SplitLines(outcome.text)
               other == IF letterType = HANDPRINT THEN PORTRAIT ELSE HANDPRINT
               otherLines ==
                   SplitLines(generatePersonalizedLetter(other, authorType, letterData).text)
               portrait == IF letterType = PORTRAIT THEN lines ELSE otherLines
               handprint == IF letterType = HANDPRINT THEN lines ELSE otherLines
               v == CHOOSE i \in 1..Len(portrait) : portrait[i] = Q_VILLAGE
               art == CHOOSE i \in 1..Len(handprint) :
                          handprint[i] # <<>> /\ handprint[i][1] = "- I drew my "
           IN /\ NonBlank(lines) =
                    <<ExpectedGreeting, HELLO, ExpectedIntro, ExpectedArtLine,
                      Q_SPECIAL_PERSON, Q_SPECIAL_REASON, Q_HAPPY>>
                    \o (IF letterType = PORTRAIT THEN <<Q_VILLAGE>> ELSE <<>>)
                    \o <<Q_SPONSOR, THANKS, HEAR_SOON>>
                    \o ExpectedHelperLines
                    \o <<ExpectedSignature>>
              /\ lines[Len(lines)] = ExpectedSignature
              /\ portrait[v + 1] = <<>>
              /\ WithoutTwo(portrait, v) =
                    [handprint EXCEPT ![art] = <<"- I drew my ", "self-portrait", ".">>]

C6_Witness ==
    /\ Returned
    /\ letterType = PORTRAIT
    /\ authorType = NAMED_HELPER
    /\ AllNamesGiven
    /\ Has(outcome.text, "self-portrait")

(***************************************************************************)
(* C7: every valid call with letterType PORTRAIT returns a text that has   *)
(* the village-question prompt as a line, and every valid call with        *)
(* letterType HANDPRINT (any author type, any non-empty names) returns a   *)
(* text without it.                                                        *)
(***************************************************************************)
C7_VillagePromptOnlyForPortrait ==
    (ncalls > 0 /\ ValidCall) =>
        /\ letterType = PORTRAIT =>
              (Returned /\ \E i \in DOMAIN SplitLines(outcome.text) :
                               SplitLines(outcome.text)[i] = Q_VILLAGE)
        /\ letterType = HANDPRINT =>
              (Returned /\ ~Has(outcome.text, Q_VILLAGE[1]))

C7_Witness ==
    /\ Returned
    /\ letterType = HANDPRINT
    /\ authorType = ANONYMOUS_HELPER
    /\ AllNamesGiven
    /\ ~Has(outcome.text, Q_VILLAGE[1])

(***************************************************************************)
(* C8: for every letter type and every valid data record, the output has   *)
(* the anonymous-helper sentence exactly once and not the named-helper one *)
(* for authorType ANONYMOUS_HELPER, the named-helper sentence exactly once *)
(* and not the anonymous one for NAMED_HELPER, and neither for CHILD.      *)
(***************************************************************************)
C8_HelperSentencePerAuthorType ==
    (ncalls > 0 /\ ValidCall) =>
        /\ Returned
        /\ Count(outcome.text, "*This letter was written with the help of a volunteer or family.")
              = (IF authorType = "ANONYMOUS_HELPER" THEN 1 ELSE 0)
        /\ Count(outcome.text, "*NAMED-HELPER helped me write this letter.")
              = (IF authorType = "NAMED_HELPER" THEN 1 ELSE 0)

C8_Witness ==
    /\ Returned
    /\ letterType = OTHER_TYPE
    /\ authorType = ANONYMOUS_HELPER
    /\ AllNamesGiven
    /\ Has(outcome.text, ANONYMOUS_STATEMENT[1])

NeverFound == \A i \in 1..Len(log) : log[i].e \notin {"notVisible", "click", "error"}

Attempts == SelectSeq(log, LAMBDA ev : ev.e = "attempt")

C10_NeverFoundExhausts ==
    (pc = "done" /\ NeverFound) =>
        /\ success = "false"
        /\ Len(Attempts) = maxRetries + 1
        /\ Len(Attempts) = 3
        /\ \A i \in 1..Len(log) : log[i].e # "click"
        /\ log[Len(log)].e # "delay"
        /\ SelectSeq(log, LAMBDA ev : ev.e \in {"attempt", "delay"}) =
              (IF nmanual = 0 THEN << Event("delay", 1000) >> ELSE << >>) \o
              << Event("attempt", 0), Event("delay", 2000),
                 Event("attempt", 1), Event("delay", 2000),
                 Event("attempt", 2) >>

C10_Witness ==
    /\ pc = "done"
    /\ NeverFound
    /\ success = "false"
    /\ nchanges > 0
    /\ Len(Attempts) = 3

(***************************************************************************)
(* Vocabulary of the properties of a run of the controller.                *)
(***************************************************************************)
\* The entries the step under consideration has added to the record.
NewEntries == SubSeq(log', Len(log) + 1, Len(log'))

\* The step is clickRating(attempt) running up to its return or its await.
AttemptStep == pc = "attempt" /\ log' # log

Clicks == SelectSeq(log, LAMBDA ev : ev.e = "click")

RetryDelays == SelectSeq(log, LAMBDA ev : ev = Event("delay", retryDelay))

\* The computed style has one of the three values that make the element count
\* as not visible.
Hidden ==
    \/ elementStyle.display = "none"
    \/ elementStyle.visibility = "hidden"
    \/ elementStyle.opacity = "0"

\* The query string has a parameter named auto_helper.
FlagPresent == \E i \in 1..Len(search) : search[i].key = "auto_helper"

\* What follows a failed attempt in clickRatingWithRetry: the retry delay
\* while attempts are left, else the end of the run with false.
RetryRule(entries) ==
    IF attempt < maxRetries
    THEN /\ pc' = "retryDelay"
         /\ log' = log \o entries \o <<Event("delay", retryDelay)>>
         /\ success' = success
    ELSE /\ pc' = "done"
         /\ log' = log \o entries
         /\ success' = "false"

(***************************************************************************)
(* C11 as stated: when the control is found and visible on the first       *)
(* attempt (so that attempt clicks it), the run makes exactly one attempt  *)
(* and one click, takes no retry delay and reports true.  Stated of the    *)
(* run that page initialization starts.                                    *)
(***************************************************************************)
C11_FirstAttemptFoundSucceeds ==
    (pc = "done" /\ nmanual = 0 /\ Has(log, Event("click", 0))) =>
        /\ success = "true"
        /\ Len(Attempts) = 1
        /\ Len(Clicks) = 1
        /\ RetryDelays = <<>>

(***************************************************************************)
(* C11 amended: when the control is found and visible on the first attempt *)
(* and is still in the document when it is looked up again after the       *)
(* settle delay, the run makes exactly one attempt and one click, takes no *)
(* retry delay and reports true.                                           *)
(***************************************************************************)
C11_FirstAttemptStillPresentSucceeds ==
    [][(pc = "settle" /\ attempt = 0 /\ elementPresent /\ pc' # "settle") =>
          /\ pc' = "done"
          /\ success' = "true"
          /\ Attempts' = <<Event("attempt", 0)>>
          /\ Clicks' = <<Event("click", 0)>>
          /\ RetryDelays' = <<>>]_vars

C11_Witness ==
    /\ pc = "done"
    /\ success = "true"
    /\ log = <<Event("delay", initialDelay), Event("attempt", 0),
               Event("click", 0), Event("delay", settleDelay)>>

(***************************************************************************)
(* C12: without a parameter named auto_helper in the query string, page    *)
(* initialization leaves the controller idle: no initial delay, no         *)
(* attempt, no click; with the parameter, whatever its value, initialize   *)
(* starts the controller and does not complete before the run has          *)
(* reported.                                                               *)
(***************************************************************************)
C12_FlagGatesController ==
    /\ (~FlagPresent /\ nmanual = 0) =>
          /\ pc = "idle"
          /\ log = <<>>
          /\ success = "none"
          /\ initPc \in {"notStarted", "floatingButton", "initialized"}
    /\ (FlagPresent /\ initPc \notin {"notStarted", "floatingButton"}) =>
          /\ initPc \in {"autoMode", "helperSettled"} => pc = "idle"
          /\ initPc = "autoRating" => pc # "idle"
          /\ (initPc = "initialized" /\ nmanual = 0) => pc = "done"

C12_Witness ==
    /\ search = <<Param("AUTO_HELPER", "1")>>
    /\ initPc = "initialized"
    /\ pc = "idle"
    /\ nchanges = MaxPageChanges

(***************************************************************************)
(* C13: an attempt made while the control is absent, or while its style    *)
(* has display none, visibility hidden or opacity 0, fails at once: it     *)
(* clicks nothing and sets no settle delay, and the retry rule follows.    *)
(***************************************************************************)
C13_AbsentOrHiddenFailsAtOnce ==
    [][(AttemptStep /\ (~elementPresent \/ Hidden)) =>
          /\ NewEntries[1] = Event("attempt", attempt)
          /\ \A i \in 1..Len(NewEntries) :
                /\ NewEntries[i].e # "click"
                /\ NewEntries[i] # Event("delay", settleDelay)
          /\ pc' \in {"retryDelay", "done"}
          /\ pc' = "done" => success' = "false"]_vars

C13_Witness ==
    /\ pc = "retryDelay"
    /\ nchanges = 0
    /\ elementPresent
    /\ elementStyle = [display |-> "block", visibility |-> "visible", opacity |-> "0"]
    /\ log = <<Event("delay", initialDelay), Event("attempt", 0),
               Event("notVisible", 0), Event("delay", retryDelay)>>

C15_ErrorsAreFailedAttempts ==
    [][/\ (pc' = "done" /\ pc # "done") =>
             /\ success' \in {"true", "false"}
             /\ userErrors' = userErrors
             /\ windowAlert' = windowAlert
       /\ (AttemptStep /\ Has(NewEntries, Event("error", attempt))) =>
             /\ RetryRule(<<Event("attempt", attempt), Event("error", attempt)>>)
             /\ userErrors' = userErrors]_vars

C15_Witness ==
    /\ pc = "done"
    /\ success = "false"
    /\ SelectSeq(log, LAMBDA ev : ev.e = "error") =
          <<Event("error", 0), Event("error", 1), Event("error", 2)>>
    /\ Len(RetryDelays) = 2

(***************************************************************************)
(* C16 as stated: once a run has reported success or exhaustion, nothing   *)
(* starts a further attempt, retry delay or click during the page load.    *)
(***************************************************************************)
C16_TerminalForPageLoad ==
    [][pc = "done" => (pc' = "done" /\ log' = log /\ success' = success)]_vars

(***************************************************************************)
(* C16 amended: once a run has reported success or exhaustion, nothing     *)
(* but a call of triggerManualRating() starts a further attempt, retry     *)
(* delay or click during the page load; initialize starts no second run.   *)
(***************************************************************************)
C16_TerminalUnlessManualTrigger ==
    [][(pc = "done" /\ nmanual' = nmanual) =>
          (pc' = "done" /\ log' = log /\ success' = success)]_vars

C16_Witness ==
    /\ pc = "done"
    /\ initPc = "initialized"
    /\ FlagPresent
    /\ nmanual = 0
    /\ nchanges = MaxPageChanges

(***************************************************************************)
(* Vocabulary of the properties of the tab-close watcher.                  *)
(***************************************************************************)
\* The step delivers an event of the page.
EventStep == nevents' # nevents

\* The step sends a closeTab message.
Sends == closeRequests' = closeRequests + 1

\* The step sends nothing.
Silent == closeRequests' = closeRequests

\* The event delivered by the step is one that checks the location.
UrlCheckEvents == {"popstate", "hashchange", "tick", "submitTimer"}

(***************************************************************************)
(* C17: the watcher sends at most one closeTab request during the life of  *)
(* a page load.                                                            *)
(***************************************************************************)
C17_AtMostOneCloseRequest == closeRequests <= 1

(***************************************************************************)
(* C18 as stated: whenever a popstate event, a hashchange event or a       *)
(* polling tick occurs while the location equals the success URL, a        *)
(* closeTab request is sent.                                               *)
(***************************************************************************)
C18_EveryCheckAtTargetSends ==
    [][(EventStep /\ lastEvent'.type \in {"popstate", "hashchange", "tick"}
           /\ href' = TARGET_URL) => Sends]_vars

(***************************************************************************)
(* C18 amended: a popstate or hashchange event sends a closeTab request    *)
(* exactly when the location then equals the success URL; a polling tick   *)
(* sends one exactly when the location equals the success URL and differs  *)
(* from the location the watcher recorded last (at load or at an earlier   *)
(* tick), and after every tick the recorded location is the current one.   *)
(***************************************************************************)
C18_ChecksOnEventsAndOnChange ==
    [][EventStep =>
          /\ lastEvent'.type \in {"popstate", "hashchange"} =>
                /\ href' = TARGET_URL => Sends
                /\ href' # TARGET_URL => Silent
                /\ lastUrl' = lastUrl
          /\ lastEvent'.type = "tick" =>
                /\ href' = href
                /\ (href = TARGET_URL /\ href # lastUrl) => Sends
                /\ (href # TARGET_URL \/ href = lastUrl) => Silent
                /\ lastUrl' = href]_vars

C18_Witness ==
    /\ nevents = 2
    /\ lastEvent.type = "tick"
    /\ href = TARGET_URL
    /\ lastUrl = TARGET_URL
    /\ closeRequests = 1
    /\ observerConnected
    /\ windowAlert = "blocked"

(***************************************************************************)
(* C19: a DOM mutation observed while the body text contains the success   *)
(* text sends a closeTab request and disconnects the observer, after which *)
(* no DOM mutation sends another; a mutation observed while the text is    *)
(* absent sends nothing and leaves the observer connected.                 *)
(***************************************************************************)
C19_ObserverSendsOnceThenStops ==
    [][(EventStep /\ lastEvent'.type = "mutation") =>
          IF observerConnected /\ Includes(bodyText', SUCCESS_TEXT)
          THEN Sends /\ ~observerConnected'
          ELSE Silent /\ observerConnected' = observerConnected]_vars

C19_Witness ==
    /\ nevents = 2
    /\ lastEvent.type = "mutation"
    /\ Includes(bodyText, SUCCESS_TEXT)
    /\ ~observerConnected
    /\ closeRequests = 1
    /\ href = LETTER_URL
    /\ lastUrl = LETTER_URL
    /\ windowAlert = "blocked"
    /\ ~formListener

(***************************************************************************)
(* C20 as stated: a closeTab request is sent only when the location equals *)
(* the success URL, when the page unloads, or when the success text is in  *)
(* the body; no other event (an alert call, say) sends one.                *)
(***************************************************************************)
C20_OnlyThreeSignalsSend ==
    [][~Silent =>
          \/ href' = TARGET_URL
          \/ lastEvent'.type = "beforeunload"
          \/ Includes(bodyText', SUCCESS_TEXT)]_vars

(***************************************************************************)
(* C20 amended: a closeTab request is sent only by an event that finds the *)
(* location equal to the success URL, by the unload of the page, by a DOM  *)
(* mutation that finds the success text in the body, or by a call of       *)
(* alert, made after initialize has installed its override, with a string  *)
(* that contains the word for "translation complete"; each sends one.      *)
(***************************************************************************)
C20_OnlyFourSignalsSend ==
    [][~Silent =>
          /\ Sends
          /\ EventStep
          /\ \/ lastEvent'.type \in UrlCheckEvents /\ href' = TARGET_URL
             \/ lastEvent'.type = "beforeunload"
             \/ /\ lastEvent'.type = "mutation"
                /\ observerConnected
                /\ Includes(bodyText', SUCCESS_TEXT)
             \/ /\ lastEvent'.type = "alert"
                /\ initPc = "initialized"
                /\ lastEvent'.arg.t = "string"
                /\ Has(lastEvent'.arg.s, DONE_WORD)]_vars

C20_Witness ==
    /\ nevents = 2
    /\ closeRequests = 0
    /\ lastEvent.type = "submitTimer"
    /\ href = TARGET_URL \o <<FRAGMENT>>
    /\ bodyText = <<DONE_WORD>>

(***************************************************************************)
(* C29: in a run of the controller, whatever the page does between steps,  *)
(* there are at most maxRetries + 1 attempts and at most maxRetries + 1    *)
(* clicks, the attempts are numbered 0, 1, 2, ... without gaps, every      *)
(* click belongs to an attempt made, and a reported success implies that   *)
(* the last attempt made has clicked.                                      *)
(***************************************************************************)
C29_BoundedAttemptsAndClicks ==
    /\ Len(Attempts) <= maxRetries + 1
    /\ Len(Clicks) <= maxRetries + 1
    /\ \A i \in 1..Len(Attempts) : Attempts[i].n = i - 1
    /\ \A i \in 1..Len(Clicks) :
          /\ Has(Attempts, Event("attempt", Clicks[i].n))
          /\ \A j \in 1..Len(Clicks) : Clicks[j].n = Clicks[i].n => j = i
    /\ success = "true" =>
          /\ Attempts # <<>>
          /\ Has(log, Event("click", Attempts[Len(Attempts)].n))

C29_Witness ==
    /\ pc = "done"
    /\ success = "true"
    /\ Len(Attempts) = maxRetries + 1
    /\ Len(Clicks) = 2
    /\ nmanual = 0

(***************************************************************************)
(* C30: in auto mode showHelper has settled, with the panel shown or with  *)
(* its failure caught, before the initial delay of the controller is set;  *)
(* a failure of the panel does not keep the controller from running; and   *)
(* once the run has reported, true or false, initialize runs to its end.   *)
(***************************************************************************)
C30_AutoModeShowsThenRates ==
    /\ []((pc # "idle" /\ nmanual = 0) => panelShown # "none")
    /\ [](panelShown # "none" => initPc \in {"helperSettled", "autoRating", "initialized"})
    /\ (panelShown = "failed" /\ pc = "idle") ~> (pc = "initialDelay")
    /\ (pc = "done" /\ success = "true") ~> (initPc = "initialized")
    /\ (pc = "done" /\ success = "false") ~> (initPc = "initialized")

C30_Witness ==
    /\ panelShown = "failed"
    /\ userErrors = 1
    /\ initPc = "initialized"
    /\ pc = "done"
    /\ success = "false"
    /\ nmanual = 0

(***************************************************************************)
(* C21: a closeTab message handled by the service worker closes the tab    *)
(* that sent it, and the handling does not fail.                           *)
(***************************************************************************)
C21_CloseRequestClosesTab ==
    \A i \in 1..Len(handled) :
        handled[i].message.action = "closeTab" =>
            /\ handled[i].message.sender \notin openTabs
            /\ handled[i].response = "success"

(***************************************************************************)
(* C22: every tab the service worker creates for an openInNewTab message   *)
(* has a url whose host is the allow-listed host.                          *)
(***************************************************************************)
C22_OnlyAllowedHostOpened ==
    \A i \in 1..Len(createdUrls) : Host(createdUrls[i]) = ALLOWED_HOST

(***************************************************************************)
(* C23: an openInNewTab message without url, or with a url on a host that  *)
(* is not the allow-listed one, is answered with success = false and       *)
(* creates no tab; and after such an answer the click that sent the        *)
(* message has sent nothing more and has not fallen back.                  *)
(***************************************************************************)
C23_RejectedOutright ==
    /\ \A i \in 1..Len(handled) :
          LET message == handled[i].message IN
          (/\ message.action = "openInNewTab"
           /\ (message.url = <<>> \/ Host(message.url) # ALLOWED_HOST)) =>
              /\ handled[i].response = "failure"
              /\ ~Has(createdUrls, message.url)
    /\ (clickPc = "done" /\ clickResponse = "failure") => fallbacks = 0

(***************************************************************************)
(* Vocabulary of the properties of the panel.                              *)
(***************************************************************************)
\* The step is one call of handleTemplateGeneration().
GenerationStep == ngenerations' = ngenerations + 1

\* What the page and the panel hold makes the call fail at one of its
\* steps: no radio checked, the names not extracted, the generator's
\* validation, or no textarea.
NoRadioSelected == letterTypeChecked = "none" \/ authorTypeChecked = "none"
ExtractionFails == extractLetterData.kind = "thrown"
ValidationFails ==
    /\ ~NoRadioSelected
    /\ ~ExtractionFails
    /\ generatePersonalizedLetter(letterTypeChecked, authorTypeChecked,
                                  extractLetterData.data).kind = "thrown"
GenerationFails ==
    NoRadioSelected \/ ExtractionFails \/ ValidationFails \/ ~textareaPresent

\* No show or hide animation and no creation of a panel is pending.
Quiescent ==
    pendingLogo = 0 /\ pendingShow = 0 /\ pendingHide = 0 /\ pendingGenHide = 0

(***************************************************************************)
(* C24: a manual generation that fails because a name is not found, the    *)
(* validation fails or the textarea is missing is aborted, raises no       *)
(* unhandled error, and a dialog with a message is displayed to the user.  *)
(***************************************************************************)
C24_FailureIsShownToUser ==
    [][(GenerationStep /\ ~NoRadioSelected /\ GenerationFails) =>
          /\ nwrites' = nwrites
          /\ unhandled' = unhandled
          /\ lastAlert' # <<>>
          /\ dialogs' = dialogs + 1]_vars

(***************************************************************************)
(* C25: however many calls of initialize() are made on a page and however  *)
(* they interleave, at most one run of the controller is started.          *)
(***************************************************************************)
C25_AtMostOneRunPerPage == runsStarted <= 1

(***************************************************************************)
(* C26: a manual generation that succeeds writes the textarea exactly      *)
(* once, leaves in it exactly the letter generated for the checked letter  *)
(* type, the checked author type and the names extracted from the page,    *)
(* focuses it and hides the panel: isVisible is cleared at once and the    *)
(* container is detached and dropped when the animation is over.           *)
(***************************************************************************)
C26_SuccessWritesLetterAndHides ==
    /\ [][(GenerationStep /\ ~GenerationFails) =>
             /\ nwrites' = nwrites + 1
             /\ textareaValue' =
                    generatePersonalizedLetter(letterTypeChecked, authorTypeChecked,
                                               extractLetterData.data).text
             /\ textareaFocused'
             /\ ~uiVisible'
             /\ pendingGenHide' = pendingGenHide + 1]_vars
    /\ [][pendingGenHide' < pendingGenHide => (container' = 0 /\ attached' = {})]_vars

\* A generation has replaced the draft by a letter and its hide() is over.
C26_Witness ==
    /\ ngenerations = 1
    /\ nwrites = 1
    /\ textareaValue # DRAFT
    /\ textareaFocused
    /\ pendingGenHide = 0
    /\ container = 0

(***************************************************************************)
(* C27: a manual generation that fails at any step leaves the textarea's   *)
(* value as it was, shows no toast and leaves the panel open: isVisible,   *)
(* the container and its attachment are unchanged.                         *)
(***************************************************************************)
C27_FailureLeavesPageAndPanel ==
    [][(GenerationStep /\ GenerationFails) =>
          UNCHANGED <<textareaValue, toasts, uiVisible, container, attached>>]_vars

\* A generation has failed for the missing textarea, with the panel open.
C27_Witness ==
    /\ ngenerations = 1
    /\ ~textareaPresent
    /\ lastAlert = TEXTAREA_NOT_FOUND
    /\ toasts = 0
    /\ uiVisible
    /\ container \in attached

(***************************************************************************)
(* C28: whenever no animation and no creation of a panel is pending,       *)
(* isVisible is true exactly if the container is non-null and attached,    *)
(* and at most one container is attached.  (Stated for clicks on the       *)
(* floating and the close button only: no generation has run.)             *)
(***************************************************************************)
C28_VisibleIffAttached ==
    (ngenerations = 0 /\ Quiescent) =>
        /\ uiVisible <=> (container # 0 /\ container \in attached)
        /\ Cardinality(attached) <= 1

====
